---- MODULE Spec2Model ----
(***************************************************************************)
(* Retrieval subsystem of the RAG service: hash embedder, chunker and the  *)
(* vector store with its Qdrant / in-memory duality.                       *)
(*                                                                         *)
(* Text is a sequence of one-character strings.  An embedding vector of    *)
(* the hash embedder is kept exactly: [cnt, nsq] stands for the float      *)
(* vector cnt[i] / sqrt(nsq) (buckets outside DOMAIN cnt are 0.0).  A      *)
(* score [num, den2, ulps] stands for the float that lies ulps units in    *)
(* the last place above the float nearest to num / sqrt(den2).             *)
(***************************************************************************)
EXTENDS Integers, Sequences, FiniteSets, TLC

VARIABLES vector_store, qdrant, last, accepted, cleared, pure_store, pure_last,
          cache_manager, redis, now, cache_last, set_times, cache_calls, threads,
          chunker, ask_last

index_vars == <<vector_store, qdrant, last, accepted, cleared, pure_store, pure_last>>

cache_vars == <<cache_manager, redis, now, cache_last, set_times, cache_calls, threads>>

vars == <<index_vars, cache_vars, chunker, ask_last>>

(***************************************************************************)
(* Bounds of the model.                                                    *)
(***************************************************************************)
MaxDocs == 2
MaxTwinDocs == 3
MaxK == 2
ChunkSize == 2
ChunkOverlap == 1

(***************************************************************************)
(* Strings.                                                                *)
(***************************************************************************)
Whitespace == {" ", "\n", "\r", "\t"}

WordChars == {"a", "b", "A", "B"}

RECURSIVE lstrip(_)
lstrip(s) ==
    IF s = <<>> THEN s
    ELSE IF Head(s) \in Whitespace THEN lstrip(Tail(s)) ELSE s

RECURSIVE rstrip(_)
rstrip(s) ==
    IF s = <<>> THEN s
    ELSE IF s[Len(s)] \in Whitespace THEN rstrip(SubSeq(s, 1, Len(s) - 1)) ELSE s

strip(s) == rstrip(lstrip(s))

lower_char(c) ==
    CASE c = "A" -> "a"
      [] c = "B" -> "b"
      [] OTHER -> c

lower(s) == [i \in 1..Len(s) |-> lower_char(s[i])]

\* re.findall(r"\w+", s): the maximal runs of word characters, left to right.
RECURSIVE findall_scan(_, _, _)
findall_scan(s, cur, acc) ==
    IF s = <<>> THEN (IF cur = <<>> THEN acc ELSE Append(acc, cur))
    ELSE IF Head(s) \in WordChars
         THEN findall_scan(Tail(s), Append(cur, Head(s)), acc)
         ELSE findall_scan(Tail(s), <<>>, IF cur = <<>> THEN acc ELSE Append(acc, cur))

findall_words(s) == findall_scan(s, <<>>, <<>>)

\* text.replace("\r\n", "\n")
RECURSIVE replace_crlf(_)
replace_crlf(s) ==
    IF s = <<>> THEN s
    ELSE IF Len(s) >= 2 /\ s[1] = "\r" /\ s[2] = "\n"
         THEN <<"\n">> \o replace_crlf(SubSeq(s, 3, Len(s)))
         ELSE <<Head(s)>> \o replace_crlf(Tail(s))

Min(a, b) == IF a <= b THEN a ELSE b

Max(a, b) == IF a >= b THEN a ELSE b

(***************************************************************************)
(* TextEmbedder, hash mode (no sentence-transformers model loaded).        *)
(***************************************************************************)
dimension == 512

\* int(sha256(token).hexdigest(), 16), its low 16 bits (512 divides 2^16).
token_hash(token) ==
    CASE token = <<"a">> -> 18619
      [] token = <<"b">> -> 157
      [] token = <<"a", "a">> -> 54534
      [] token = <<"a", "b">> -> 1539
      [] token = <<"b", "a">> -> 16704
      [] token = <<"b", "b">> -> 57007
      [] token = <<"a", "a", "a">> -> 59632
      [] token = <<"a", "a", "b">> -> 21347
      [] token = <<"a", "b", "a">> -> 49597
      [] token = <<"a", "b", "b">> -> 10605
      [] token = <<"b", "a", "a">> -> 65124
      [] token = <<"b", "a", "b">> -> 52981
      [] token = <<"b", "b", "a">> -> 46547
      [] token = <<"b", "b", "b">> -> 50807

RECURSIVE sum_squares(_, _)
sum_squares(f, S) ==
    IF S = {} THEN 0
    ELSE LET i == CHOOSE x \in S : TRUE
         IN f[i] * f[i] + sum_squares(f, S \ {i})

_hash_embed(text) ==
    LET tokens == findall_words(lower(text))
        idx(n) == token_hash(tokens[n]) % dimension
        buckets == {idx(n) : n \in 1..Len(tokens)}
        cnt == [i \in buckets |-> Cardinality({n \in 1..Len(tokens) : idx(n) = i})]
        nsq == sum_squares(cnt, buckets)
    IN  IF tokens = <<>> THEN [cnt |-> <<>>, nsq |-> 1]
        ELSE [cnt |-> cnt, nsq |-> IF nsq = 0 THEN 1 ELSE nsq]

embed(texts) == [i \in 1..Len(texts) |-> _hash_embed(texts[i])]

embed_one(text) == embed(<<text>>)[1]

(***************************************************************************)
(* Similarity scores.                                                      *)
(***************************************************************************)
RECURSIVE sum_products(_, _, _)
sum_products(f, g, S) ==
    IF S = {} THEN 0
    ELSE LET i == CHOOSE x \in S : TRUE
         IN f[i] * g[i] + sum_products(f, g, S \ {i})

\* The rounding of the float arithmetic of _hash_embed (sqrt, value / norm)
\* and _cosine_similarity (a * b, sum), taken from runs of the code: the
\* vectors with FloatCounts tokens "a" (bucket 187) and "b" (bucket 157),
\* keyed <<a of one, b of one, a of the other, b of the other>> with the
\* smaller pair first.  The sets hold the keys whose float is off the
\* nearest float of num / sqrt(den2); the sum is the same for (a, b) and
\* (b, a).
FloatCounts == 0..4

UlpsMinusTwo ==
    {<<1, 1, 1, 1>>, <<1, 1, 2, 2>>, <<1, 1, 4, 4>>, <<2, 2, 2, 2>>,
     <<2, 2, 4, 4>>, <<4, 4, 4, 4>>}

UlpsMinusOne ==
    {<<0, 1, 1, 1>>, <<0, 1, 2, 2>>, <<0, 1, 4, 4>>, <<0, 2, 1, 1>>,
     <<0, 2, 2, 2>>, <<0, 2, 4, 4>>, <<0, 3, 1, 1>>, <<0, 3, 2, 2>>,
     <<0, 3, 4, 4>>, <<0, 4, 1, 1>>, <<0, 4, 2, 2>>, <<0, 4, 4, 4>>,
     <<1, 0, 1, 1>>, <<1, 0, 2, 2>>, <<1, 0, 4, 4>>, <<1, 1, 1, 2>>,
     <<1, 1, 1, 3>>, <<1, 1, 1, 4>>, <<1, 1, 2, 0>>, <<1, 1, 2, 1>>,
     <<1, 1, 2, 4>>, <<1, 1, 3, 0>>, <<1, 1, 3, 1>>, <<1, 1, 3, 4>>,
     <<1, 1, 4, 0>>, <<1, 1, 4, 1>>, <<1, 1, 4, 2>>, <<1, 1, 4, 3>>,
     <<1, 2, 1, 2>>, <<1, 2, 2, 1>>, <<1, 2, 2, 2>>, <<1, 2, 2, 4>>,
     <<1, 2, 3, 1>>, <<1, 2, 4, 2>>, <<1, 2, 4, 3>>, <<1, 2, 4, 4>>,
     <<1, 3, 1, 3>>, <<1, 3, 1, 4>>, <<1, 3, 2, 1>>, <<1, 3, 2, 2>>,
     <<1, 3, 4, 2>>, <<1, 3, 4, 4>>, <<1, 4, 2, 2>>, <<1, 4, 4, 3>>,
     <<1, 4, 4, 4>>, <<2, 0, 2, 2>>, <<2, 0, 4, 4>>, <<2, 1, 2, 1>>,
     <<2, 1, 2, 2>>, <<2, 1, 2, 4>>, <<2, 1, 3, 4>>, <<2, 1, 4, 2>>,
     <<2, 1, 4, 4>>, <<2, 2, 2, 4>>, <<2, 2, 3, 0>>, <<2, 2, 3, 1>>,
     <<2, 2, 3, 4>>, <<2, 2, 4, 0>>, <<2, 2, 4, 1>>, <<2, 2, 4, 2>>,
     <<2, 2, 4, 3>>, <<2, 4, 2, 4>>, <<2, 4, 3, 1>>, <<2, 4, 4, 2>>,
     <<2, 4, 4, 3>>, <<2, 4, 4, 4>>, <<3, 0, 4, 4>>, <<3, 1, 3, 1>>,
     <<3, 1, 4, 1>>, <<3, 1, 4, 4>>, <<3, 4, 4, 1>>, <<3, 4, 4, 2>>,
     <<3, 4, 4, 4>>, <<4, 0, 4, 4>>, <<4, 1, 4, 4>>, <<4, 2, 4, 2>>,
     <<4, 2, 4, 4>>, <<4, 3, 4, 4>>}

UlpsPlusOne ==
    {<<1, 3, 3, 3>>, <<1, 3, 3, 4>>, <<2, 3, 3, 3>>, <<3, 1, 3, 3>>,
     <<3, 1, 4, 3>>, <<3, 2, 3, 3>>, <<3, 3, 3, 3>>}

UlpsPlusTwo ==
    {<<2, 3, 3, 4>>, <<3, 2, 4, 3>>}

count_at(vector, bucket) ==
    IF bucket \in DOMAIN vector.cnt THEN vector.cnt[bucket] ELSE 0

pair_le(p, q) == p[1] < q[1] \/ (p[1] = q[1] /\ p[2] <= q[2])

float_key(vector_a, vector_b) ==
    LET p == <<count_at(vector_a, 187), count_at(vector_a, 157)>>
        q == <<count_at(vector_b, 187), count_at(vector_b, 157)>>
    IN  IF pair_le(p, q) THEN p \o q ELSE q \o p

in_float_table(vector) ==
    /\ DOMAIN vector.cnt \subseteq {157, 187}
    /\ \A bucket \in DOMAIN vector.cnt : vector.cnt[bucket] \in FloatCounts

FloatKeys == FloatCounts \X FloatCounts \X FloatCounts \X FloatCounts

UlpsTable ==
    [key \in FloatKeys |->
        IF key \in UlpsMinusTwo THEN -2
        ELSE IF key \in UlpsMinusOne THEN -1
        ELSE IF key \in UlpsPlusOne THEN 1
        ELSE IF key \in UlpsPlusTwo THEN 2
        ELSE 0]

\* Not defined for a vector outside the table.
float_ulps(vector_a, vector_b) ==
    CASE in_float_table(vector_a) /\ in_float_table(vector_b) ->
            UlpsTable[float_key(vector_a, vector_b)]

_cosine_similarity(vector_a, vector_b) ==
    [num |-> sum_products(vector_a.cnt, vector_b.cnt,
                          DOMAIN vector_a.cnt \cap DOMAIN vector_b.cnt),
     den2 |-> vector_a.nsq * vector_b.nsq,
     ulps |-> float_ulps(vector_a, vector_b)]

\* Order of the floats that two scores stand for (numerators are >= 0):
\* that of num / sqrt(den2), and of the roundings where these are equal.
score_gt(s, t) ==
    \/ s.num * s.num * t.den2 > t.num * t.num * s.den2
    \/ s.num * s.num * t.den2 = t.num * t.num * s.den2 /\ s.ulps > t.ulps

score_eq(s, t) ==
    /\ s.num * s.num * t.den2 = t.num * t.num * s.den2
    /\ s.ulps = t.ulps

(***************************************************************************)
(* Chunker and DocumentProcessor.                                          *)
(***************************************************************************)
RECURSIVE chunk_loop(_, _, _, _, _)
chunk_loop(normalized, size, ov, start, chunks) ==
    IF ~(start < Len(normalized)) THEN chunks
    ELSE LET end == Min(Len(normalized), start + size)
             chunk == strip(SubSeq(normalized, start + 1, end))
             chunks2 == IF chunk # <<>> THEN Append(chunks, chunk) ELSE chunks
         IN  IF end = Len(normalized) THEN chunks2
             ELSE chunk_loop(normalized, size, ov, end - ov, chunks2)

_chunk_text(text, chunk_size, overlap) ==
    LET normalized == strip(replace_crlf(text))
        size == Max(1, chunk_size)
        ov == Max(0, Min(overlap, size - 1))
    IN  IF normalized = <<>> THEN <<>>
        ELSE chunk_loop(normalized, size, ov, 0, <<>>)

\* Variant: every chunk of a document gets the ordinal 0.
process_document_one_ordinal(filename, content) ==
    LET chunks == _chunk_text(content, ChunkSize, ChunkOverlap)
    IN  [n \in 1..Len(chunks) |->
            [id |-> <<filename, 0>>, filename |-> filename, content |-> chunks[n]]]

process_document(filename, content) ==
    LET chunks == _chunk_text(content, ChunkSize, ChunkOverlap)
    IN  [n \in 1..Len(chunks) |->
            [id |-> <<filename, n - 1>>, filename |-> filename, content |-> chunks[n]]]

(***************************************************************************)
(* The Qdrant collection, as the client calls of VectorStore use it.       *)
(* points maps a point id to [vector, payload]; upsert replaces the point  *)
(* of an id that is already present.                                       *)
(***************************************************************************)
make_points(valid_chunks, embeddings) ==
    [n \in 1..Len(valid_chunks) |->
        [id |-> valid_chunks[n].id,
         vector |-> embeddings[n],
         payload |-> [filename |-> valid_chunks[n].filename,
                      content |-> valid_chunks[n].content]]]

qdrant_upsert(collection, points) ==
    LET ids == {points[n].id : n \in 1..Len(points)}
        lastOf(id) == CHOOSE n \in 1..Len(points) :
                          /\ points[n].id = id
                          /\ \A m \in (n + 1)..Len(points) : points[m].id # id
    IN  [exists |-> collection.exists,
         points |-> [id \in DOMAIN collection.points \cup ids |->
                        IF id \in ids
                        THEN [vector |-> points[lastOf(id)].vector,
                              payload |-> points[lastOf(id)].payload]
                        ELSE collection.points[id]]]

RECURSIVE injective_seqs(_, _)
injective_seqs(S, n) ==
    IF n = 0 THEN {<<>>}
    ELSE UNION {{<<x>> \o s : s \in injective_seqs(S \ {x}, n - 1)} : x \in S}

\* The answers the engine may give to search(query_vector, limit): the
\* limit best points by score, best first, ties in any order.  The engine
\* rounds in its own arithmetic, so scores equal before rounding are ties.
qdrant_search(collection, query_vector, limit) ==
    LET ids == DOMAIN collection.points
        sc(id) == _cosine_similarity(query_vector, collection.points[id].vector)
        above(s, t) == s.num * s.num * t.den2 > t.num * t.num * s.den2
        n == Min(limit, Cardinality(ids))
        ranked == {s \in injective_seqs(ids, n) :
                      /\ \A i \in 1..(n - 1) : ~above(sc(s[i + 1]), sc(s[i]))
                      /\ \A id \in ids \ {s[i] : i \in 1..n} :
                            \A i \in 1..n : ~above(sc(id), sc(s[i]))}
    IN  {[i \in 1..n |-> [id |-> s[i],
                          payload |-> collection.points[s[i]].payload,
                          score |-> sc(s[i])]] : s \in ranked}

(***************************************************************************)
(* VectorStore.  A handler is an operator from the instance (self), the    *)
(* collection and the call's inputs to the instance and collection after   *)
(* the call, the returned value and whether Qdrant was called.             *)
(***************************************************************************)
\* Variant: the content is tested without being stripped.
valid_chunks_unstripped(chunks) == SelectSeq(chunks, LAMBDA chunk : chunk.content # <<>>)

valid_chunks_of(chunks) == SelectSeq(chunks, LAMBDA chunk : strip(chunk.content) # <<>>)

_store_in_memory(memory_docs, chunks, embeddings) ==
    memory_docs \o [n \in 1..Len(chunks) |->
                       [filename |-> chunks[n].filename,
                        content |-> chunks[n].content,
                        embedding |-> embeddings[n]]]

\* Variant: an upserted batch is not copied to the memory replica.
add_upserted_no_replica(self, collection, valid_chunks, embeddings) ==
    LET points == make_points(valid_chunks, embeddings)
    IN  [self |-> self,
         collection |-> qdrant_upsert(collection, points),
         ret |-> Len(points),
         raised |-> FALSE, contacted |-> TRUE]

\* The upsert went through: the batch is also kept in the memory replica.
add_upserted(self, collection, valid_chunks, embeddings) ==
    LET points == make_points(valid_chunks, embeddings)
    IN  [self |-> [client |-> TRUE,
                   memory_docs |-> _store_in_memory(self.memory_docs, valid_chunks, embeddings)],
         collection |-> qdrant_upsert(collection, points),
         ret |-> Len(points),
         raised |-> FALSE, contacted |-> TRUE]

\* Variant: a batch whose upsert raised is given up.
add_fallback_lost(self, collection, valid_chunks, embeddings) ==
    [self |-> [client |-> FALSE,
               memory_docs |-> IF self.client THEN self.memory_docs
                               ELSE _store_in_memory(self.memory_docs, valid_chunks, embeddings)],
     collection |-> collection,
     ret |-> IF self.client THEN 0 ELSE Len(valid_chunks),
     raised |-> FALSE, contacted |-> self.client]

\* No client, or the upsert raised: the client is dropped, memory only.
add_fallback(self, collection, valid_chunks, embeddings) ==
    [self |-> [client |-> FALSE,
               memory_docs |-> _store_in_memory(self.memory_docs, valid_chunks, embeddings)],
     collection |-> collection,
     ret |-> Len(valid_chunks),
     raised |-> FALSE, contacted |-> self.client]

\* Variant: no early return for a batch without valid chunks.
add_documents_no_early_return(self, collection, chunks, upsert_ok) ==
    LET valid_chunks == valid_chunks_of(chunks)
        embeddings == embed([n \in 1..Len(valid_chunks) |-> valid_chunks[n].content])
    IN  IF self.client /\ upsert_ok /\ collection.exists
        THEN add_upserted(self, collection, valid_chunks, embeddings)
        ELSE add_fallback(self, collection, valid_chunks, embeddings)

add_documents(self, collection, chunks, upsert_ok) ==
    LET valid_chunks == valid_chunks_of(chunks)
        embeddings == embed([n \in 1..Len(valid_chunks) |-> valid_chunks[n].content])
    IN  IF valid_chunks = <<>>
        THEN [self |-> self, collection |-> collection, ret |-> 0, raised |-> FALSE, contacted |-> FALSE]
        ELSE IF self.client /\ upsert_ok /\ collection.exists
        THEN add_upserted(self, collection, valid_chunks, embeddings)
        ELSE add_fallback(self, collection, valid_chunks, embeddings)

\* Variant: ascending order (reverse=True forgotten).
RECURSIVE insert_asc(_, _)
insert_asc(sorted, item) ==
    IF sorted = <<>> THEN <<item>>
    ELSE IF score_gt(Head(sorted).score, item.score) THEN <<item>> \o sorted
    ELSE <<Head(sorted)>> \o insert_asc(Tail(sorted), item)

\* Variant: descending, but an item goes before the items equal to it.
RECURSIVE insert_desc_unstable(_, _)
insert_desc_unstable(sorted, item) ==
    IF sorted = <<>> THEN <<item>>
    ELSE IF ~score_gt(Head(sorted).score, item.score) THEN <<item>> \o sorted
    ELSE <<Head(sorted)>> \o insert_desc_unstable(Tail(sorted), item)

RECURSIVE insert_desc(_, _)
insert_desc(sorted, item) ==
    IF sorted = <<>> THEN <<item>>
    ELSE IF score_gt(item.score, Head(sorted).score) THEN <<item>> \o sorted
    ELSE <<Head(sorted)>> \o insert_desc(Tail(sorted), item)

\* list.sort(key=score, reverse=True): stable, equal scores keep their order.
RECURSIVE sort_desc(_)
sort_desc(scored) ==
    IF scored = <<>> THEN <<>>
    ELSE insert_desc(sort_desc(SubSeq(scored, 1, Len(scored) - 1)), scored[Len(scored)])

\* Variant: hits without any similarity are filtered out.
memory_search_threshold(memory_docs, query_vector, k) ==
    LET scored == [n \in 1..Len(memory_docs) |->
                      [filename |-> memory_docs[n].filename,
                       content |-> memory_docs[n].content,
                       score |-> _cosine_similarity(query_vector, memory_docs[n].embedding)]]
        sorted == SelectSeq(sort_desc(scored), LAMBDA item : item.score.num > 0)
    IN  IF memory_docs = <<>> THEN <<>>
        ELSE SubSeq(sorted, 1, Min(k, Len(sorted)))

memory_search(memory_docs, query_vector, k) ==
    LET scored == [n \in 1..Len(memory_docs) |->
                      [filename |-> memory_docs[n].filename,
                       content |-> memory_docs[n].content,
                       score |-> _cosine_similarity(query_vector, memory_docs[n].embedding)]]
        sorted == sort_desc(scored)
    IN  IF memory_docs = <<>> THEN <<>>
        ELSE SubSeq(sorted, 1, Min(k, Len(sorted)))

\* The Qdrant search answered: its hits are returned as they came.
search_remote(self, hits) ==
    [self |-> self,
     ret |-> [i \in 1..Len(hits) |->
                 [filename |-> hits[i].payload.filename,
                  content |-> hits[i].payload.content,
                  score |-> hits[i].score]],
     raised |-> FALSE, contacted |-> TRUE,
     backend |-> "qdrant"]

\* Variant: a failed Qdrant search answers with no hits.
search_fallback_empty(self, query_vector, k) ==
    [self |-> [client |-> FALSE, memory_docs |-> self.memory_docs],
     ret |-> IF self.client THEN <<>> ELSE memory_search(self.memory_docs, query_vector, k),
     raised |-> FALSE, contacted |-> self.client,
     backend |-> "memory"]

\* Variant: the memory documents themselves are sorted by score and stay
\* in that order.
search_fallback_sorts_store(self, query_vector, k) ==
    LET scored == [n \in 1..Len(self.memory_docs) |->
                      [filename |-> self.memory_docs[n].filename,
                       content |-> self.memory_docs[n].content,
                       embedding |-> self.memory_docs[n].embedding,
                       score |-> _cosine_similarity(query_vector,
                                                    self.memory_docs[n].embedding)]]
        sorted == sort_desc(scored)
    IN  [self |-> [client |-> FALSE,
                   memory_docs |-> [n \in 1..Len(sorted) |->
                                       [filename |-> sorted[n].filename,
                                        content |-> sorted[n].content,
                                        embedding |-> sorted[n].embedding]]],
         ret |-> memory_search(self.memory_docs, query_vector, k),
         raised |-> FALSE, contacted |-> self.client,
         backend |-> "memory"]

\* No client, or the Qdrant search raised: the client is dropped and the
\* memory documents are scanned.
search_fallback(self, query_vector, k) ==
    [self |-> [client |-> FALSE, memory_docs |-> self.memory_docs],
     ret |-> memory_search(self.memory_docs, query_vector, k),
     raised |-> FALSE, contacted |-> self.client,
     backend |-> "memory"]

similarity_search(self, collection, query, k, search_ok, hits) ==
    LET query_vector == embed_one(query)
    IN  IF strip(query) = <<>>
        THEN [self |-> self, ret |-> <<>>, raised |-> FALSE, contacted |-> FALSE, backend |-> "none"]
        ELSE IF self.client /\ search_ok /\ collection.exists
        THEN search_remote(self, hits)
        ELSE search_fallback(self, query_vector, k)

\* Variant: the collection lookup and the delete are not guarded by try.
health_check_unguarded(self, collection, get_ok) ==
    IF self.client
    THEN [ret |-> get_ok /\ collection.exists,
          raised |-> ~(get_ok /\ collection.exists), contacted |-> TRUE]
    ELSE [ret |-> self.memory_docs # <<>>, raised |-> FALSE, contacted |-> FALSE]

health_check(self, collection, get_ok) ==
    IF self.client
    THEN [ret |-> get_ok /\ collection.exists, raised |-> FALSE, contacted |-> TRUE]
    ELSE [ret |-> self.memory_docs # <<>>, raised |-> FALSE, contacted |-> FALSE]

\* Variant: clear reconnects to Qdrant and recreates the collection.
clear_reconnect(self, collection, delete_ok, ensure_ok) ==
    LET deleted == [exists |-> FALSE, points |-> <<>>]
        created == [exists |-> TRUE, points |-> <<>>]
    IN  [self |-> [client |-> self.client \/ (delete_ok /\ ensure_ok), memory_docs |-> <<>>],
         collection |-> IF ~delete_ok THEN collection
                        ELSE IF ensure_ok THEN created ELSE deleted,
         raised |-> FALSE, contacted |-> TRUE]

\* delete_collection, then _ensure_collection (collection_exists and
\* create_collection); an exception of either is logged and swallowed.
clear(self, collection, delete_ok, ensure_ok) ==
    LET deleted == [exists |-> FALSE, points |-> <<>>]
        created == [exists |-> TRUE, points |-> <<>>]
    IN  [self |-> [client |-> self.client, memory_docs |-> <<>>],
         collection |-> IF ~self.client \/ ~delete_ok THEN collection
                        ELSE IF ensure_ok THEN created ELSE deleted,
         raised |-> FALSE, contacted |-> self.client]

(***************************************************************************)
(* Inputs of the calls.                                                    *)
(***************************************************************************)
Filenames == {"f.txt"}

\* A chunk as process_document builds it: id, filename and content present.
mk_chunk(filename, n, content) ==
    [id |-> <<filename, n>>, filename |-> filename, content |-> content]

\* Batches handed to add_documents: empty, blank only, one valid, mixed,
\* and two valid whose scores for a one-word query are the floats on
\* either side of 1 / sqrt(2).
Batches ==
    { <<>>,
      <<mk_chunk("g.txt", 0, <<>>), mk_chunk("g.txt", 1, <<"\t", " ">>)>>,
      <<mk_chunk("f.txt", 0, <<"a">>)>>,
      <<mk_chunk("g.txt", 0, <<" ">>), mk_chunk("g.txt", 1, <<"A">>)>>,
      <<mk_chunk("g.txt", 0, <<"a", " ", "b">>),
        mk_chunk("g.txt", 1, <<"a", " ", "a", " ", "a", " ", "b", " ", "b", " ", "b">>)>> }

\* Raw texts handed to the upload path.
UploadTexts ==
    { <<"a", " ", "b">>,
      <<"a", " ", " ", "b">>,
      <<"b", "\r", "\n">> }

Queries == { <<"a">>, <<"B", " ">>, <<" ">> }

(***************************************************************************)
(* State after construction: the client is kept when Qdrant was reached    *)
(* and the collection ensured, dropped otherwise.                          *)
(***************************************************************************)
\* The cache and the chunker take no step in the runs of the index.
NoCacheCall ==
    [op |-> "init", at |-> 0, question |-> <<>>, value |-> "None", ret |-> "None",
     contacted |-> FALSE, failed |-> FALSE, raised |-> FALSE, evicted |-> FALSE]

CacheIdle ==
    /\ cache_manager = [redis_client |-> FALSE, memory_cache |-> <<>>]
    /\ redis = [configured |-> FALSE, up |-> FALSE, up_at_init |-> FALSE, store |-> <<>>]
    /\ now = 0
    /\ cache_last = NoCacheCall
    /\ set_times = <<>>
    /\ cache_calls = 0
    /\ threads = <<>>

ChunkerIdle == chunker = [pc |-> "idle"]

AskIdle == ask_last = [op |-> "init"]

NoCall ==
    [op |-> "init", chunks |-> <<>>, query |-> <<>>, k |-> 0, count |-> 0,
     hits |-> <<>>, healthy |-> FALSE, raised |-> FALSE, contacted |-> FALSE, backend |-> "none",
     remote_down |-> FALSE]

\* The collection as __init__ leaves it when the client was built:
\* _ensure_collection creates it empty when it is missing and leaves it as
\* it is, with the points of earlier processes, when it exists.
EarlierPoints ==
    <<"f.txt", 0>> :> [vector |-> embed_one(<<"b">>),
                       payload |-> [filename |-> "f.txt", content |-> <<"b">>]]

ConstructedCollections ==
    {[exists |-> TRUE, points |-> <<>>], [exists |-> TRUE, points |-> EarlierPoints]}

NoCollection == [exists |-> FALSE, points |-> <<>>]

Init ==
    /\ \E connected \in BOOLEAN :
          /\ vector_store = [client |-> connected, memory_docs |-> <<>>]
          /\ qdrant \in (IF connected THEN ConstructedCollections ELSE {NoCollection})
    /\ last = NoCall
    /\ accepted = <<>>
    /\ cleared = FALSE
    /\ pure_store = [client |-> FALSE, memory_docs |-> <<>>]
    /\ pure_last = NoCall
    /\ CacheIdle
    /\ ChunkerIdle
    /\ AskIdle

\* The chunks of a batch that carry text, as [filename, content].
non_blank(chunks) ==
    LET keep == SelectSeq(chunks, LAMBDA c : \E i \in 1..Len(c.content) :
                                                c.content[i] \notin Whitespace)
    IN  [n \in 1..Len(keep) |-> [filename |-> keep[n].filename, content |-> keep[n].content]]

\* The outcomes of the call's Qdrant request; none is made without a client.
Outcomes == IF vector_store.client THEN BOOLEAN ELSE {TRUE}

\* The instance holds a client while the backend fails the call's request.
backend_failing(call_ok) == vector_store.client /\ ~(call_ok /\ qdrant.exists)

AddCall(op, chunks, upsert_ok) ==
    /\ Len(vector_store.memory_docs) + Len(non_blank(chunks)) <= MaxDocs
    /\ \E r \in {add_documents(vector_store, qdrant, chunks, upsert_ok)} :
        /\ vector_store' = r.self
        /\ qdrant' = r.collection
        /\ last' = [NoCall EXCEPT !.op = op, !.chunks = chunks, !.count = r.ret,
                                  !.contacted = r.contacted, !.raised = r.raised,
                                  !.remote_down = backend_failing(upsert_ok)]
        /\ accepted' = accepted \o non_blank(chunks)
        /\ cleared' = FALSE
        /\ UNCHANGED <<pure_store, pure_last, cache_vars, chunker, ask_last>>

AddDocuments ==
    \E chunks \in Batches, upsert_ok \in Outcomes :
        AddCall("add", chunks, upsert_ok)

\* routes.upload_document / init_documents: process_document, then add.
UploadDocument ==
    \E filename \in Filenames, text \in UploadTexts, upsert_ok \in Outcomes :
        \E chunks \in {process_document(filename, text)} :
            AddCall("upload", chunks, upsert_ok)

\* hits: the engine's answer; there is none without a request that succeeds.
SimilaritySearch ==
    \E query \in Queries, k \in 1..MaxK, search_ok \in Outcomes :
        \E hits \in (IF vector_store.client /\ search_ok
                     THEN qdrant_search(qdrant, embed_one(query), k)
                     ELSE {<<>>}) :
            \E r \in {similarity_search(vector_store, qdrant, query, k, search_ok, hits)} :
                /\ vector_store' = r.self
                /\ last' = [NoCall EXCEPT !.op = "search", !.query = query, !.k = k,
                                          !.hits = r.ret, !.contacted = r.contacted, !.raised = r.raised,
                                          !.backend = r.backend,
                                          !.remote_down = backend_failing(search_ok)]
                /\ UNCHANGED <<qdrant, accepted, cleared, pure_store, pure_last, cache_vars, chunker, ask_last>>

HealthCheck ==
    \E get_ok \in Outcomes :
        LET r == health_check(vector_store, qdrant, get_ok)
        IN  /\ last' = [NoCall EXCEPT !.op = "health", !.healthy = r.ret,
                                      !.contacted = r.contacted, !.raised = r.raised,
                                      !.remote_down = backend_failing(get_ok)]
            /\ UNCHANGED <<vector_store, qdrant, accepted, cleared, pure_store, pure_last, cache_vars, chunker, ask_last>>

\* cleared: a clear has returned and no add has been called since.
Clear ==
    \E delete_ok \in Outcomes, ensure_ok \in Outcomes :
        LET r == clear(vector_store, qdrant, delete_ok, ensure_ok)
        IN  /\ vector_store' = r.self
            /\ qdrant' = r.collection
            /\ last' = [NoCall EXCEPT !.op = "clear", !.contacted = r.contacted, !.raised = r.raised,
                                      !.remote_down = backend_failing(delete_ok /\ ensure_ok)]
            /\ accepted' = <<>>
            /\ cleared' = TRUE
            /\ UNCHANGED <<pure_store, pure_last, cache_vars, chunker, ask_last>>

Next ==
    \/ AddDocuments
    \/ UploadDocument
    \/ SimilaritySearch
    \/ HealthCheck
    \/ Clear

Spec == Init /\ [][Next]_vars

(***************************************************************************)
(* Two instances given the same add and search calls: vector_store was     *)
(* constructed with Qdrant reachable and every later Qdrant request fails; *)
(* pure_store was constructed without a client.                            *)
(***************************************************************************)
InitFailing ==
    /\ vector_store = [client |-> TRUE, memory_docs |-> <<>>]
    /\ qdrant \in ConstructedCollections
    /\ last = NoCall
    /\ accepted = <<>>
    /\ cleared = FALSE
    /\ pure_store = [client |-> FALSE, memory_docs |-> <<>>]
    /\ pure_last = NoCall
    /\ CacheIdle
    /\ ChunkerIdle
    /\ AskIdle

BothAdd(op, chunks) ==
    LET r == add_documents(vector_store, qdrant, chunks, FALSE)
        p == add_documents(pure_store, qdrant, chunks, TRUE)
    IN  /\ Len(pure_store.memory_docs) + Len(non_blank(chunks)) <= MaxTwinDocs
        /\ vector_store' = r.self
        /\ pure_store' = p.self
        /\ last' = [NoCall EXCEPT !.op = op, !.chunks = chunks, !.count = r.ret,
                                  !.contacted = r.contacted, !.raised = r.raised,
                                  !.remote_down = vector_store.client]
        /\ pure_last' = [NoCall EXCEPT !.op = op, !.chunks = chunks, !.count = p.ret,
                                       !.contacted = p.contacted, !.raised = p.raised]
        /\ UNCHANGED <<qdrant, accepted, cleared, cache_vars, chunker, ask_last>>

FailingAdd ==
    \E chunks \in Batches : BothAdd("add", chunks)

FailingUpload ==
    \E filename \in Filenames, text \in UploadTexts :
        BothAdd("upload", process_document(filename, text))

FailingSearch ==
    \E query \in Queries, k \in 1..MaxK :
        LET r == similarity_search(vector_store, qdrant, query, k, FALSE, <<>>)
            p == similarity_search(pure_store, qdrant, query, k, TRUE, <<>>)
        IN  /\ vector_store' = r.self
            /\ pure_store' = p.self
            /\ last' = [NoCall EXCEPT !.op = "search", !.query = query, !.k = k,
                                      !.hits = r.ret, !.contacted = r.contacted, !.raised = r.raised,
                                      !.backend = r.backend,
                                      !.remote_down = vector_store.client]
            /\ pure_last' = [NoCall EXCEPT !.op = "search", !.query = query, !.k = k,
                                           !.hits = p.ret, !.contacted = p.contacted, !.raised = p.raised,
                                           !.backend = p.backend]
            /\ UNCHANGED <<qdrant, accepted, cleared, cache_vars, chunker, ask_last>>

NextFailing ==
    \/ FailingAdd
    \/ FailingUpload
    \/ FailingSearch

SpecFailing == InitFailing /\ [][NextFailing]_vars

(***************************************************************************)
(* Properties of the vector store.                                         *)
(***************************************************************************)
Range(seq) == {seq[i] : i \in 1..Len(seq)}

memory_entries ==
    [n \in 1..Len(vector_store.memory_docs) |->
        [filename |-> vector_store.memory_docs[n].filename,
         content |-> vector_store.memory_docs[n].content]]

IsAdd(call) == call.op \in {"add", "upload"}

\* The hit that a scan computes for the n-th memory document.
doc_hit(docs, n, query_vector) ==
    [filename |-> docs[n].filename,
     content |-> docs[n].content,
     score |-> _cosine_similarity(query_vector, docs[n].embedding)]

\* hits is the top-k ranking of docs: best score first, equal scores in
\* insertion order, nothing left out that should precede a returned hit.
IsLocalTopK(hits, docs, query, k) ==
    LET qv == _hash_embed(query)
        sc(n) == _cosine_similarity(qv, docs[n].embedding)
        before(m, n) == score_gt(sc(m), sc(n)) \/ (score_eq(sc(m), sc(n)) /\ m < n)
    IN  \E p \in injective_seqs(1..Len(docs), Min(k, Len(docs))) :
            /\ hits = [i \in 1..Len(p) |-> doc_hit(docs, p[i], qv)]
            /\ \A i, j \in 1..Len(p) : i < j => before(p[i], p[j])
            /\ \A n \in (1..Len(docs)) \ Range(p) : \A i \in 1..Len(p) : before(p[i], n)

\* C1: since the last clear, the memory store holds exactly the chunks with
\* non-blank content handed to add, in the order they were accepted and with
\* the embedding of their content, whether their upsert succeeded or failed;
\* a search served from memory ranks over all of them.
C1_AcceptedChunksRetained ==
    /\ memory_entries = accepted
    /\ \A n \in 1..Len(vector_store.memory_docs) :
          vector_store.memory_docs[n].embedding
              = _hash_embed(vector_store.memory_docs[n].content)
    /\ (last.op = "search" /\ last.backend = "memory") =>
          /\ Len(last.hits) = Min(last.k, Len(accepted))
          /\ \A i \in 1..Len(last.hits) :
                [filename |-> last.hits[i].filename, content |-> last.hits[i].content]
                    \in Range(accepted)

\* A search failed over to memory after batches had been upserted, and it
\* returns two of the accepted chunks.
C1_Witness ==
    /\ last.op = "search" /\ last.backend = "memory" /\ last.contacted
    /\ DOMAIN qdrant.points # {}
    /\ Len(accepted) >= 2
    /\ Len(last.hits) = 2

\* C2: local mode is permanent: a call made without a client leaves the
\* instance without a client, does not call Qdrant and leaves the
\* collection as it is.
C2_LocalModeIsPermanent ==
    [][~vector_store.client =>
          /\ ~vector_store'.client
          /\ ~last'.contacted
          /\ qdrant' = qdrant]_vars

\* After a failover from a populated collection, a clear ran in local mode.
C2_Witness ==
    /\ ~vector_store.client
    /\ DOMAIN qdrant.points # {}
    /\ last.op = "clear" /\ ~last.contacted

\* C3: a call whose Qdrant request fails returns with the instance in local
\* mode and with its normal result from the memory store: add returns the
\* number of valid chunks, all of them stored at the end of the memory
\* store; search returns the local top-k ranking.
C3_FailedCallFallsBack ==
    (last.contacted /\ last.remote_down /\ last.op \in {"add", "upload", "search"}) =>
        /\ ~vector_store.client
        /\ IsAdd(last) =>
              /\ last.count = Len(non_blank(last.chunks))
              /\ last.count <= Len(memory_entries)
              /\ SubSeq(memory_entries, Len(memory_entries) - last.count + 1,
                        Len(memory_entries)) = non_blank(last.chunks)
        /\ last.op = "search" =>
              IsLocalTopK(last.hits, vector_store.memory_docs, last.query, last.k)

\* A search whose Qdrant request failed returned hits from memory.
C3_Witness ==
    /\ last.op = "search" /\ last.contacted /\ last.remote_down
    /\ last.hits # <<>>
    /\ ~vector_store.client

\* C4: given the same add and search calls, the instance whose Qdrant
\* requests all fail returns the same add counts and the same ordered hits
\* as the instance constructed without a client.
C4_FailingEqualsPureLocal ==
    /\ last.op = pure_last.op
    /\ last.count = pure_last.count
    /\ last.hits = pure_last.hits

\* After its failover the failing instance served a search with two hits.
C4_Witness ==
    /\ last.op = "search"
    /\ ~vector_store.client
    /\ Len(last.hits) = 2
    /\ pure_last.hits = last.hits

LocalSearchDone == last.op = "search" /\ last.backend = "memory"

\* C5: a search served from memory for a non-blank query and k >= 1 returns
\* at most k hits; each hit is a stored document with the dot product of the
\* query vector and its stored vector as score; scores do not increase along
\* the result; no document left out scores strictly higher than a hit.
C5_LocalSearchIsTopK ==
    LocalSearchDone =>
        LET docs == vector_store.memory_docs
            qv == _hash_embed(last.query)
            sc(n) == _cosine_similarity(qv, docs[n].embedding)
            hits == last.hits
        IN  /\ strip(last.query) # <<>> /\ last.k >= 1
            /\ Len(hits) <= last.k
            /\ \A i \in 1..(Len(hits) - 1) : ~score_gt(hits[i + 1].score, hits[i].score)
            /\ \E p \in injective_seqs(1..Len(docs), Len(hits)) :
                  /\ \A i \in 1..Len(hits) : hits[i] = doc_hit(docs, p[i], qv)
                  /\ \A n \in (1..Len(docs)) \ Range(p) :
                        \A i \in 1..Len(hits) : ~score_gt(sc(n), hits[i].score)

\* Of two stored documents the later one scores higher, and a search with
\* k = 1 returned it and left the earlier one out.
C5_Witness ==
    /\ LocalSearchDone /\ last.k = 1
    /\ Len(vector_store.memory_docs) = 2
    /\ LET docs == vector_store.memory_docs
           qv == _hash_embed(last.query)
       IN  /\ score_gt(doc_hit(docs, 2, qv).score, doc_hit(docs, 1, qv).score)
           /\ last.hits = <<doc_hit(docs, 2, qv)>>

\* C6: in a search served from memory, hits of equal score appear in
\* insertion order, and a document left out whose score equals that of a
\* hit was inserted after that hit.
C6_TiesInInsertionOrder ==
    LocalSearchDone =>
        LET docs == vector_store.memory_docs
            qv == _hash_embed(last.query)
            sc(n) == _cosine_similarity(qv, docs[n].embedding)
            hits == last.hits
        IN  \E p \in injective_seqs(1..Len(docs), Len(hits)) :
                /\ \A i \in 1..Len(hits) : hits[i] = doc_hit(docs, p[i], qv)
                /\ \A i, j \in 1..Len(hits) :
                      (i < j /\ score_eq(hits[i].score, hits[j].score)) => p[i] < p[j]
                /\ \A n \in (1..Len(docs)) \ Range(p) :
                      \A i \in 1..Len(hits) : score_eq(sc(n), hits[i].score) => p[i] < n

\* Two different documents tie with a positive score; a search with k = 1
\* returned the one inserted first.
C6_Witness ==
    /\ LocalSearchDone /\ last.k = 1
    /\ Len(vector_store.memory_docs) = 2
    /\ LET docs == vector_store.memory_docs
           qv == _hash_embed(last.query)
       IN  /\ score_eq(doc_hit(docs, 1, qv).score, doc_hit(docs, 2, qv).score)
           /\ doc_hit(docs, 1, qv).score.num > 0
           /\ doc_hit(docs, 1, qv) # doc_hit(docs, 2, qv)
           /\ last.hits = <<doc_hit(docs, 1, qv)>>

\* C7: a search served from memory applies no score threshold: with at most
\* k stored documents every one of them is a hit, also with score 0, and
\* with an empty store the result is the empty sequence.
C7_NoScoreThreshold ==
    (LocalSearchDone /\ Len(vector_store.memory_docs) <= last.k) =>
        LET docs == vector_store.memory_docs
            qv == _hash_embed(last.query)
        IN  /\ Len(last.hits) = Len(docs)
            /\ docs = <<>> => last.hits = <<>>
            /\ \E p \in injective_seqs(1..Len(docs), Len(docs)) :
                  \A i \in 1..Len(docs) : last.hits[i] = doc_hit(docs, p[i], qv)

\* The only stored document shares no token with the query and is returned
\* with score 0.
C7_Witness ==
    /\ LocalSearchDone
    /\ Len(vector_store.memory_docs) = 1
    /\ Len(last.hits) = 1
    /\ last.hits[1].score.num = 0
    /\ last.hits[1].content = vector_store.memory_docs[1].content

HasText(content) == \E i \in 1..Len(content) : content[i] \notin Whitespace

\* C8: add returns the number of documents indexed: in every mode and under
\* Qdrant failure the count is the number of input chunks with non-blank
\* content and the number of entries by which the memory store grew; no
\* chunk with blank content is ever stored.
C8_AddReturnsIndexedCount ==
    /\ [](\A n \in 1..Len(vector_store.memory_docs) :
             HasText(vector_store.memory_docs[n].content))
    /\ [][IsAdd(last') =>
             /\ last'.count = Cardinality({n \in 1..Len(last'.chunks) :
                                              HasText(last'.chunks[n].content)})
             /\ Len(vector_store'.memory_docs)
                    = Len(vector_store.memory_docs) + last'.count]_vars

\* An add of a blank and a valid chunk whose upsert failed returned 1.
C8_Witness ==
    /\ last.op = "add" /\ Len(last.chunks) = 2 /\ last.count = 1
    /\ last.contacted /\ last.remote_down
    /\ Len(vector_store.memory_docs) >= 1

\* C9: add of a batch without a valid chunk returns 0, leaves the memory
\* store, the mode and the collection unchanged and does not call Qdrant.
C9_BlankBatchIsNoOp ==
    [][(IsAdd(last') /\ \A n \in 1..Len(last'.chunks) : ~HasText(last'.chunks[n].content)) =>
          /\ last'.count = 0
          /\ ~last'.contacted
          /\ vector_store' = vector_store
          /\ qdrant' = qdrant]_vars

\* A batch of blank chunks was added while the instance held a client and
\* Qdrant was failing: the instance still holds its client.
C9_Witness ==
    /\ last.op = "add" /\ Len(last.chunks) = 2 /\ last.count = 0
    /\ last.remote_down /\ ~last.contacted
    /\ vector_store.client
    /\ vector_store.memory_docs # <<>>

\* C10: an upload under the source name of the upload before it, both
\* upserted to Qdrant, adds its chunks as new points and leaves every
\* earlier point of the collection as it was.
C10_ReingestionKeepsEarlierPoints ==
    [][(/\ last.op = "upload" /\ last.count > 0 /\ last.contacted /\ vector_store.client
        /\ last'.op = "upload" /\ last'.count > 0 /\ last'.contacted /\ vector_store'.client
        /\ last'.chunks[1].filename = last.chunks[1].filename) =>
          /\ \A id \in DOMAIN qdrant.points :
                id \in DOMAIN qdrant'.points /\ qdrant'.points[id] = qdrant.points[id]
          /\ Cardinality(DOMAIN qdrant'.points)
                = Cardinality(DOMAIN qdrant.points) + last'.count]_vars


(***************************************************************************)
(* CacheManager (src/app/cache.py).  The Redis server is a map from key to *)
(* a JSON string with the time at which the key expires; a command sent    *)
(* while the server is unreachable raises in the client.  The time of      *)
(* time.time() and of the server is the integer now.                       *)
(***************************************************************************)
CacheTTL == 2

MaxTime == 3

MaxCalls == 3

md5_hexdigest(text) ==
    CASE text = <<"a">> -> "0cc175b9c0f1b6a831c399e269772661"
      [] text = <<"b">> -> "92eb5ffee6ae2fec3ad71c777531578f"
      [] text = <<"A", " ">> -> "6743b9fcc57cf1b169fb4ef6c7a955d2"
      [] text = <<>> -> "d41d8cd98f00b204e9800998ecf8427e"

\* Variant: the key is the hash of the question as typed.
_get_cache_key_as_typed(question) == <<"question:", md5_hexdigest(question)>>

_get_cache_key(question) == <<"question:", md5_hexdigest(strip(lower(question)))>>

json_dumps(response) == <<"json", response>>

json_loads(cached) == cached[2]

without_key(map, key) == [k \in DOMAIN map \ {key} |-> map[k]]

\* GET of the server: a key whose time to live has run out is gone.
redis_get(backend, key, t) ==
    IF key \in DOMAIN backend.store /\ backend.store[key].expires_at > t
    THEN backend.store[key].value
    ELSE "None"

\* SETEX of the server.
redis_setex(backend, key, ttl, value, t) ==
    [backend EXCEPT !.store = (key :> [value |-> value, expires_at |-> t + ttl]) @@ @]

cache_result(self, backend, ret) ==
    [self |-> self, backend |-> backend, ret |-> ret, contacted |-> FALSE,
     failed |-> FALSE, raised |-> FALSE, evicted |-> FALSE]

\* Variant: a get also drops every other entry whose time has run out.
get_sweeping(self, backend, question, t) ==
    LET key == _get_cache_key(question)
        live == {k \in DOMAIN self.memory_cache : self.memory_cache[k].expires_at > t}
        swept == [self EXCEPT !.memory_cache = [k \in live |-> @[k]]]
    IN  IF key \in live
        THEN cache_result(swept, backend, self.memory_cache[key].value)
        ELSE [cache_result(swept, backend, "None")
                EXCEPT !.evicted = key \in DOMAIN self.memory_cache]

get(self, backend, question, t) ==
    LET key == _get_cache_key(question)
        payload == self.memory_cache[key]
        cached == redis_get(backend, key, t)
    IN  IF ~self.redis_client
        THEN IF key \in DOMAIN self.memory_cache /\ payload.expires_at > t
             THEN cache_result(self, backend, payload.value)
             ELSE IF key \in DOMAIN self.memory_cache
             THEN [cache_result([self EXCEPT !.memory_cache = without_key(@, key)],
                                backend, "None") EXCEPT !.evicted = TRUE]
             ELSE cache_result(self, backend, "None")
        ELSE IF backend.up
        THEN [cache_result(self, backend,
                           IF cached # "None" THEN json_loads(cached) ELSE "None")
                EXCEPT !.contacted = TRUE]
        ELSE [cache_result(self, backend, "None")
                EXCEPT !.contacted = TRUE, !.failed = TRUE]

\* Variant: setex is called outside try.
set_unguarded(self, backend, question, response, t) ==
    LET key == _get_cache_key(question)
    IN  IF self.redis_client /\ ~backend.up
        THEN [cache_result(self, backend, "None")
                EXCEPT !.contacted = TRUE, !.failed = TRUE, !.raised = TRUE]
        ELSE cache_result(self, backend, "None")

\* Variant: overwriting a key keeps the expiry time it had.
set_keeps_expiry(self, backend, question, response, t) ==
    LET key == _get_cache_key(question)
        entry == [value |-> response,
                  expires_at |-> IF key \in DOMAIN self.memory_cache
                                 THEN self.memory_cache[key].expires_at
                                 ELSE t + CacheTTL]
    IN  IF ~self.redis_client
        THEN cache_result([self EXCEPT !.memory_cache = (key :> entry) @@ @],
                          backend, "None")
        ELSE IF backend.up
        THEN [cache_result(self,
                           redis_setex(backend, key, CacheTTL, json_dumps(response), t),
                           "None")
                EXCEPT !.contacted = TRUE]
        ELSE [cache_result(self, backend, "None")
                EXCEPT !.contacted = TRUE, !.failed = TRUE]

set(self, backend, question, response, t) ==
    LET key == _get_cache_key(question)
        entry == [value |-> response, expires_at |-> t + CacheTTL]
    IN  IF ~self.redis_client
        THEN cache_result([self EXCEPT !.memory_cache = (key :> entry) @@ @],
                          backend, "None")
        ELSE IF backend.up
        THEN [cache_result(self,
                           redis_setex(backend, key, CacheTTL, json_dumps(response), t),
                           "None")
                EXCEPT !.contacted = TRUE]
        ELSE [cache_result(self, backend, "None")
                EXCEPT !.contacted = TRUE, !.failed = TRUE]

Questions == {<<"a">>, <<"A", " ">>, <<"b">>}

Responses == {"v1", "v2"}

IndexIdle ==
    /\ vector_store = [client |-> FALSE, memory_docs |-> <<>>]
    /\ qdrant = [exists |-> FALSE, points |-> <<>>]
    /\ last = NoCall
    /\ accepted = <<>>
    /\ cleared = FALSE
    /\ pure_store = [client |-> FALSE, memory_docs |-> <<>>]
    /\ pure_last = NoCall

\* redis.from_url opens no connection: the client object exists whenever
\* the redis package is importable and the URL parses, whether or not the
\* server can be reached.
InitCache ==
    /\ IndexIdle
    /\ ChunkerIdle
    /\ AskIdle
    /\ \E configured \in BOOLEAN, up \in BOOLEAN :
        /\ cache_manager = [redis_client |-> configured, memory_cache |-> <<>>]
        /\ redis = [configured |-> configured, up |-> up, up_at_init |-> up,
                    store |-> <<>>]
    /\ now = 0
    /\ cache_last = NoCacheCall
    /\ set_times = <<>>
    /\ cache_calls = 0
    /\ threads = <<>>

CacheGet ==
    \E question \in Questions :
        LET r == get(cache_manager, redis, question, now)
        IN  /\ cache_calls < MaxCalls
            /\ cache_calls' = cache_calls + 1
            /\ cache_manager' = r.self
            /\ redis' = r.backend
            /\ cache_last' = [op |-> "get", at |-> now, question |-> question, value |-> "None",
                              ret |-> r.ret, contacted |-> r.contacted,
                              failed |-> r.failed, raised |-> r.raised,
                              evicted |-> r.evicted]
            /\ UNCHANGED <<index_vars, now, set_times, threads, chunker, ask_last>>

\* set_times remembers, per question up to case and surrounding blanks,
\* the latest call of set.
\* replaced: the key was in the local map when set was called.
CacheSet ==
    \E question \in Questions, response \in Responses :
        LET r == set(cache_manager, redis, question, response, now)
        IN  /\ cache_calls < MaxCalls
            /\ cache_calls' = cache_calls + 1
            /\ cache_manager' = r.self
            /\ redis' = r.backend
            /\ cache_last' = [op |-> "set", at |-> now, question |-> question, value |-> response,
                              ret |-> r.ret, contacted |-> r.contacted,
                              failed |-> r.failed, raised |-> r.raised,
                              evicted |-> r.evicted,
                              replaced |-> _get_cache_key(question)
                                              \in DOMAIN cache_manager.memory_cache]
            /\ set_times' = (strip(lower(question)) :>
                                [at |-> now, question |-> question,
                                 value |-> response, failed |-> r.failed]) @@ set_times
            /\ UNCHANGED <<index_vars, now, threads, chunker, ask_last>>

Tick ==
    /\ now < MaxTime
    /\ now' = now + 1
    /\ UNCHANGED <<index_vars, cache_manager, redis, cache_last, set_times, cache_calls,
                   threads, chunker, ask_last>>

\* The server becomes unreachable or reachable again.
BackendFlip ==
    /\ cache_manager.redis_client
    /\ redis' = [redis EXCEPT !.up = ~@]
    /\ UNCHANGED <<index_vars, cache_manager, now, cache_last, set_times, cache_calls,
                   threads, chunker, ask_last>>

NextCache ==
    \/ CacheGet
    \/ CacheSet
    \/ Tick
    \/ BackendFlip

SpecCache == InitCache /\ [][NextCache]_vars


(***************************************************************************)
(* get and set of the local map called from several threads.  No lock is   *)
(* taken in cache.py: the dictionary read, the expiry test and the pop of  *)
(* get are separate steps between which another thread may run, and so     *)
(* are the clock read and the assignment of set.                           *)
(***************************************************************************)
Threads == {"t1", "t2"}

NoPayload == [present |-> FALSE, value |-> "None", expires_at |-> 0]

IdleThread == [pc |-> "idle", question |-> <<>>, payload |-> NoPayload]

\* payload = self._memory_cache.get(key)
get_read(self, question) ==
    LET key == _get_cache_key(question)
    IN  IF key \in DOMAIN self.memory_cache
        THEN [present |-> TRUE, value |-> self.memory_cache[key].value,
              expires_at |-> self.memory_cache[key].expires_at]
        ELSE NoPayload

\* if payload and payload["expires_at"] > time.time()
get_is_live(payload, t) == payload.present /\ payload.expires_at > t

\* self._memory_cache.pop(key, None)
get_pop(self, question) ==
    [self EXCEPT !.memory_cache = without_key(@, _get_cache_key(question))]

InitCacheRace ==
    /\ IndexIdle
    /\ ChunkerIdle
    /\ AskIdle
    /\ cache_manager = [redis_client |-> FALSE, memory_cache |-> <<>>]
    /\ redis = [configured |-> FALSE, up |-> FALSE, up_at_init |-> FALSE, store |-> <<>>]
    /\ now = 0
    /\ cache_last = NoCacheCall
    /\ set_times = <<>>
    /\ cache_calls = 0
    /\ threads = [t \in Threads |-> IdleThread]

ThreadGetRead ==
    \E t \in Threads, question \in Questions :
        /\ threads[t].pc = "idle"
        /\ cache_calls < MaxCalls
        /\ cache_calls' = cache_calls + 1
        /\ threads' = [threads EXCEPT ![t] = [pc |-> "check", question |-> question,
                                              payload |-> get_read(cache_manager, question)]]
        /\ UNCHANGED <<index_vars, cache_manager, redis, now, cache_last, set_times, chunker, ask_last>>

ThreadGetCheck ==
    \E t \in Threads :
        /\ threads[t].pc = "check"
        /\ IF get_is_live(threads[t].payload, now)
           THEN /\ threads' = [threads EXCEPT ![t] = IdleThread]
                /\ cache_last' = [NoCacheCall EXCEPT !.op = "get", !.at = now,
                                      !.question = threads[t].question,
                                      !.ret = threads[t].payload.value]
           ELSE IF threads[t].payload.present
           THEN /\ threads' = [threads EXCEPT ![t].pc = "pop"]
                /\ UNCHANGED cache_last
           ELSE /\ threads' = [threads EXCEPT ![t] = IdleThread]
                /\ cache_last' = [NoCacheCall EXCEPT !.op = "get", !.at = now,
                                      !.question = threads[t].question]
        /\ UNCHANGED <<index_vars, cache_manager, redis, now, set_times, cache_calls, chunker, ask_last>>

ThreadGetPop ==
    \E t \in Threads :
        /\ threads[t].pc = "pop"
        /\ cache_manager' = get_pop(cache_manager, threads[t].question)
        /\ threads' = [threads EXCEPT ![t] = IdleThread]
        /\ cache_last' = [NoCacheCall EXCEPT !.op = "get", !.at = now,
                              !.question = threads[t].question, !.evicted = TRUE]
        /\ UNCHANGED <<index_vars, redis, now, set_times, cache_calls, chunker, ask_last>>

\* {"value": response, "expires_at": time.time() + self.ttl}: the clock is
\* read and the entry built before the assignment.
set_entry(response, t) ==
    [present |-> TRUE, value |-> response, expires_at |-> t + CacheTTL]

\* self._memory_cache[key] = entry
set_store(self, question, payload) ==
    [self EXCEPT !.memory_cache =
        (_get_cache_key(question) :>
            [value |-> payload.value, expires_at |-> payload.expires_at]) @@ @]

ThreadSetEntry ==
    \E t \in Threads, question \in Questions, response \in Responses :
        /\ threads[t].pc = "idle"
        /\ cache_calls < MaxCalls
        /\ cache_calls' = cache_calls + 1
        /\ threads' = [threads EXCEPT ![t] = [pc |-> "store", question |-> question,
                                              payload |-> set_entry(response, now)]]
        /\ UNCHANGED <<index_vars, cache_manager, redis, now, cache_last, set_times, chunker, ask_last>>

ThreadSetStore ==
    \E t \in Threads :
        /\ threads[t].pc = "store"
        /\ cache_manager' = set_store(cache_manager, threads[t].question, threads[t].payload)
        /\ threads' = [threads EXCEPT ![t] = IdleThread]
        /\ cache_last' = [NoCacheCall EXCEPT !.op = "set", !.at = now,
                              !.question = threads[t].question,
                              !.value = threads[t].payload.value]
        /\ set_times' = (strip(lower(threads[t].question)) :>
                            [at |-> threads[t].payload.expires_at - CacheTTL,
                             question |-> threads[t].question,
                             value |-> threads[t].payload.value, failed |-> FALSE]) @@ set_times
        /\ UNCHANGED <<index_vars, redis, now, cache_calls, chunker, ask_last>>

NextCacheRace ==
    \/ ThreadGetRead
    \/ ThreadGetCheck
    \/ ThreadGetPop
    \/ ThreadSetEntry
    \/ ThreadSetStore
    \/ Tick

SpecCacheRace == InitCacheRace /\ [][NextCacheRace]_vars


(***************************************************************************)
(* The loop of _chunk_text (src/app/services/document.py), one iteration   *)
(* per step.  windows keeps every slice normalized[start:end] as it was    *)
(* before strip.                                                           *)
(***************************************************************************)
MaxTextLen == 4

MaxChunkSize == 3

\* Variant: the overlap is used as given.
chunk_begin_unclamped(text, chunk_size, overlap) ==
    LET normalized == strip(replace_crlf(text))
    IN  [pc |-> IF normalized = <<>> THEN "done" ELSE "loop",
         text |-> text, chunk_size |-> chunk_size, overlap |-> overlap,
         normalized |-> normalized, size |-> Max(1, chunk_size), ov |-> overlap,
         start |-> 0, chunks |-> <<>>, windows |-> <<>>]

\* Lines 9-17: normalize, return [] for an empty text, clamp size and overlap.
chunk_begin(text, chunk_size, overlap) ==
    LET normalized == strip(replace_crlf(text))
        size == Max(1, chunk_size)
        ov == Max(0, Min(overlap, size - 1))
    IN  [pc |-> IF normalized = <<>> THEN "done" ELSE "loop",
         text |-> text, chunk_size |-> chunk_size, overlap |-> overlap,
         normalized |-> normalized, size |-> size, ov |-> ov,
         start |-> 0, chunks |-> <<>>, windows |-> <<>>]

\* Variant: the next window starts where the last one ended.
chunk_step_no_overlap(c) ==
    LET end == Min(Len(c.normalized), c.start + c.size)
        window == SubSeq(c.normalized, c.start + 1, end)
        chunks2 == IF strip(window) # <<>> THEN Append(c.chunks, strip(window)) ELSE c.chunks
    IN  [c EXCEPT !.chunks = chunks2, !.windows = Append(@, window), !.start = end,
                  !.pc = IF end = Len(c.normalized) THEN "done" ELSE "loop"]

\* Variant: a last window shorter than size is not appended.
chunk_step_drop_partial(c) ==
    LET end == Min(Len(c.normalized), c.start + c.size)
        window == SubSeq(c.normalized, c.start + 1, end)
        chunks2 == IF strip(window) # <<>> /\ Len(window) = c.size
                   THEN Append(c.chunks, strip(window)) ELSE c.chunks
    IN  IF end = Len(c.normalized)
        THEN [c EXCEPT !.chunks = chunks2, !.windows = Append(@, window), !.pc = "done"]
        ELSE [c EXCEPT !.chunks = chunks2, !.windows = Append(@, window),
                       !.start = end - c.ov]

\* Lines 18-25: one pass of the while loop.
chunk_step(c) ==
    IF ~(c.start < Len(c.normalized)) THEN [c EXCEPT !.pc = "done"]
    ELSE LET end == Min(Len(c.normalized), c.start + c.size)
             window == SubSeq(c.normalized, c.start + 1, end)
             chunk == strip(window)
             chunks2 == IF chunk # <<>> THEN Append(c.chunks, chunk) ELSE c.chunks
         IN  IF end = Len(c.normalized)
             THEN [c EXCEPT !.chunks = chunks2, !.windows = Append(@, window),
                            !.pc = "done"]
             ELSE [c EXCEPT !.chunks = chunks2, !.windows = Append(@, window),
                            !.start = end - c.ov]

RECURSIVE seqs_upto(_, _)
seqs_upto(alphabet, n) ==
    IF n = 0 THEN {<<>>}
    ELSE LET shorter == seqs_upto(alphabet, n - 1)
         IN  shorter \cup {Append(t, ch) : t \in shorter, ch \in alphabet}

ChunkTexts ==
    seqs_upto({"a", "b", " "}, MaxTextLen)
        \cup {<<"a", "\r", "\n", "b">>, <<"\r", "\n", "a", " ">>}

ChunkSizes == (-1)..MaxChunkSize

\* The scenario chunk("abcdefghij", chunk_size=4, overlap=2).
ScenarioText == <<"a", "b", "c", "d", "e", "f", "g", "h", "i", "j">>

Overlaps == (-1)..(MaxChunkSize + 1)

InitChunker ==
    /\ IndexIdle
    /\ CacheIdle
    /\ AskIdle
    /\ \/ \E text \in ChunkTexts, chunk_size \in ChunkSizes, overlap \in Overlaps :
            chunker = chunk_begin(text, chunk_size, overlap)
       \/ chunker = chunk_begin(ScenarioText, 4, 2)

ChunkStep ==
    /\ chunker.pc = "loop"
    /\ chunker' = chunk_step(chunker)
    /\ UNCHANGED <<index_vars, cache_vars, ask_last>>

NextChunker == ChunkStep

SpecChunker == InitChunker /\ [][NextChunker]_vars

\* The loop is straight-line code of one call: it keeps running until it
\* returns.
SpecChunkerFair == SpecChunker /\ WF_vars(ChunkStep)


(***************************************************************************)
(* RagRetriever (src/app/rag/retriever.py) and the query path of           *)
(* routes.ask_question.  A text built by the handlers is a sequence of     *)
(* fragments: single characters, and whole strings for file names and      *)
(* literals.  The answer generator and the query-history database are      *)
(* outside the process: their results are inputs of the call.              *)
(***************************************************************************)
top_k == 3

preview_chars == 200

MaxAsks == 2

\* Variant: retrieve hands every question to the index.
retrieve_unguarded(self, collection, question, search_ok, hits) ==
    LET r == similarity_search(self, collection, question, top_k, search_ok, hits)
    IN  [self |-> r.self, ret |-> r.ret, raised |-> r.raised, contacted |-> r.contacted,
         backend |-> r.backend, searched |-> TRUE, embedded |-> strip(question) # <<>>]

\* searched: similarity_search was called; embedded: embed_one was called.
retrieve(self, collection, question, search_ok, hits) ==
    IF strip(question) = <<>>
    THEN [self |-> self, ret |-> <<>>, raised |-> FALSE, contacted |-> FALSE,
          backend |-> "none", searched |-> FALSE, embedded |-> FALSE]
    ELSE LET r == similarity_search(self, collection, question, top_k, search_ok, hits)
         IN  [self |-> r.self, ret |-> r.ret, raised |-> r.raised,
              contacted |-> r.contacted, backend |-> r.backend,
              searched |-> TRUE, embedded |-> TRUE]

RECURSIVE join(_, _)
join(separator, parts) ==
    IF parts = <<>> THEN <<>>
    ELSE IF Len(parts) = 1 THEN Head(parts)
    ELSE Head(parts) \o separator \o join(separator, Tail(parts))

\* Variant: the blocks are emitted last hit first.
format_context_reversed(docs) ==
    join(<<"\n", "\n">>,
         [i \in 1..Len(docs) |->
            <<"Source: ", docs[Len(docs) + 1 - i].filename, "\n">>
                \o docs[Len(docs) + 1 - i].content])

format_context(docs) ==
    join(<<"\n", "\n">>,
         [i \in 1..Len(docs) |-> <<"Source: ", docs[i].filename, "\n">> \o docs[i].content])

\* LLMService._count_tokens on an answer given as its words.
_count_tokens(answer) == Max(1, Len(answer))

\* Source(document, content[:200] + "...", score) for every retrieved doc.
sources_of(docs) ==
    [i \in 1..Len(docs) |->
        [document |-> docs[i].filename,
         content |-> SubSeq(docs[i].content, 1, Min(Len(docs[i].content), preview_chars))
                        \o <<"...">>,
         score |-> docs[i].score]]

\* response.model_dump(exclude={"cache_hit"}): answer, sources, tokens_used,
\* response_time.
model_dump(answer, sources, tokens, response_time) ==
    <<answer, sources, tokens, response_time>>

ask_result(cache, backend, index, status, payload, cache_hit, steps, docs, context) ==
    [cache |-> cache, backend |-> backend, index |-> index, status |-> status,
     payload |-> payload, cache_hit |-> cache_hit, steps |-> steps,
     docs |-> docs, context |-> context]


\* Lines 39-53: the cached payload is returned with cache_hit = True after
\* the history row is written; an exception of the database becomes a 500.
ask_hit(g, index, db_ok) ==
    ask_result(g.self, g.backend, index,
               IF db_ok THEN 200 ELSE 500, IF db_ok THEN g.ret ELSE "None", db_ok,
               <<"cache_get", "history">>, <<>>, <<>>)

\* Variant: an empty retrieval is answered like any other.
ask_miss_no_404(g, index, collection, question, t, search_ok, hits, answer, db_ok) ==
    LET r == retrieve(index, collection, question, search_ok, hits)
        payload == model_dump(answer, sources_of(r.ret), _count_tokens(answer), 0)
        w == set(g.self, g.backend, question, payload, t)
    IN  ask_result(w.self, w.backend, r.self,
                   IF db_ok THEN 200 ELSE 500, IF db_ok THEN payload ELSE "None", FALSE,
                   <<"cache_get", "retrieve", "format_context", "generate",
                     "cache_set", "history">>,
                   r.ret, format_context(r.ret))

\* Lines 55-109: retrieve, 404 without hits, else format the context,
\* generate, build the response, cache it, write the history row.
ask_miss(g, index, collection, question, t, search_ok, hits, answer, db_ok) ==
    LET r == retrieve(index, collection, question, search_ok, hits)
        payload == model_dump(answer, sources_of(r.ret), _count_tokens(answer), 0)
        w == set(g.self, g.backend, question, payload, t)
    IN  IF r.ret = <<>>
        THEN ask_result(g.self, g.backend, r.self, 404, "None", FALSE,
                        <<"cache_get", "retrieve">>, <<>>, <<>>)
        ELSE ask_result(w.self, w.backend, r.self,
                        IF db_ok THEN 200 ELSE 500, IF db_ok THEN payload ELSE "None",
                        FALSE,
                        <<"cache_get", "retrieve", "format_context", "generate",
                          "cache_set", "history">>,
                        r.ret, format_context(r.ret))

\* Variant: the cache is consulted but the answer is always computed.
ask_question_no_short_circuit(cache, backend, index, collection, question, t, search_ok, hits, answer, db_ok) ==
    ask_miss(get(cache, backend, question, t), index, collection, question, t,
             search_ok, hits, answer, db_ok)

ask_question(cache, backend, index, collection, question, t, search_ok, hits, answer, db_ok) ==
    LET g == get(cache, backend, question, t)
    IN  IF g.ret # "None"
        THEN ask_hit(g, index, db_ok)
        ELSE ask_miss(g, index, collection, question, t, search_ok, hits, answer, db_ok)

\* The request bodies: QuestionRequest strips the question and rejects an
\* empty one before the handler runs.
AskInputs == {<<"a">>, <<"A", " ">>, <<" ">>}

Answers == {<<"x1">>, <<"x1", "x2">>}

InitAsk ==
    /\ \E connected \in BOOLEAN :
          /\ vector_store = [client |-> connected, memory_docs |-> <<>>]
          /\ qdrant \in (IF connected THEN ConstructedCollections ELSE {NoCollection})
    /\ last = NoCall
    /\ accepted = <<>>
    /\ cleared = FALSE
    /\ pure_store = [client |-> FALSE, memory_docs |-> <<>>]
    /\ pure_last = NoCall
    /\ \E configured \in BOOLEAN, up \in BOOLEAN :
        /\ cache_manager = [redis_client |-> configured, memory_cache |-> <<>>]
        /\ redis = [configured |-> configured, up |-> up, up_at_init |-> up,
                    store |-> <<>>]
    /\ now = 0
    /\ cache_last = NoCacheCall
    /\ set_times = <<>>
    /\ cache_calls = 0
    /\ threads = <<>>
    /\ ChunkerIdle
    /\ AskIdle

\* r is the outcome of the handler for the inputs chosen, cached what the
\* cache answers for the question at that moment.
AskQuestion ==
    /\ cache_calls < MaxAsks
    /\ \E raw \in AskInputs, search_ok \in Outcomes, answer \in Answers, db_ok \in BOOLEAN :
        \E hits \in (IF vector_store.client /\ search_ok
                     THEN qdrant_search(qdrant, embed_one(strip(raw)), top_k)
                     ELSE {<<>>}) :
            \E question \in {strip(raw)} :
            \E r \in {ask_question(cache_manager, redis, vector_store, qdrant, question,
                                   now, search_ok, hits, answer, db_ok)},
               cached \in {get(cache_manager, redis, question, now).ret} :
                /\ cache_calls' = cache_calls + 1
                /\ IF question = <<>>
                   THEN /\ ask_last' = [op |-> "ask", question |-> question, at |-> now,
                                        status |-> 422, payload |-> "None",
                                        cache_hit |-> FALSE, steps |-> <<>>,
                                        docs |-> <<>>, context |-> <<>>,
                                        cached |-> "None"]
                        /\ UNCHANGED <<cache_manager, redis, vector_store>>
                   ELSE /\ ask_last' = [op |-> "ask", question |-> question, at |-> now,
                                        status |-> r.status, payload |-> r.payload,
                                        cache_hit |-> r.cache_hit, steps |-> r.steps,
                                        docs |-> r.docs, context |-> r.context,
                                        cached |-> cached]
                        /\ cache_manager' = r.cache
                        /\ redis' = r.backend
                        /\ vector_store' = r.index
                /\ UNCHANGED <<qdrant, last, accepted, cleared, pure_store, pure_last, now,
                               cache_last, set_times, threads, chunker>>

Retrieve ==
    \E question \in Queries, search_ok \in Outcomes :
        \E hits \in (IF vector_store.client /\ search_ok
                     THEN qdrant_search(qdrant, embed_one(question), top_k)
                     ELSE {<<>>}) :
            \E r \in {retrieve(vector_store, qdrant, question, search_ok, hits)} :
                /\ vector_store' = r.self
                /\ ask_last' = [op |-> "retrieve", question |-> question, docs |-> r.ret,
                                searched |-> r.searched, embedded |-> r.embedded,
                                contacted |-> r.contacted, raised |-> r.raised,
                                index_before |-> vector_store, index_after |-> r.self]
                /\ UNCHANGED <<qdrant, last, accepted, cleared, pure_store, pure_last,
                               cache_vars, chunker>>

NextAsk ==
    \/ AskQuestion
    \/ Retrieve
    \/ UploadDocument
    \/ BackendFlip

SpecAsk == InitAsk /\ [][NextAsk]_vars

(***************************************************************************)
(* format_context alone: the hit list is the input of the call.  The hits  *)
(* come in any order and may repeat; a content may hold a blank line.      *)
(***************************************************************************)
MaxHits == 3

FormatHits ==
    {[filename |-> "f.txt", content |-> <<"a">>, score |-> [num |-> 1, den2 |-> 4, ulps |-> 0]],
     [filename |-> "f.txt", content |-> <<"b", "\n", "\n", "c">>,
      score |-> [num |-> 1, den2 |-> 1, ulps |-> 0]],
     [filename |-> "g.txt", content |-> <<"a">>, score |-> [num |-> 0, den2 |-> 1, ulps |-> 0]],
     [filename |-> "g.txt", content |-> <<"c", " ">>, score |-> [num |-> 1, den2 |-> 2, ulps |-> -1]]}

InitFormat ==
    /\ IndexIdle
    /\ CacheIdle
    /\ ChunkerIdle
    /\ \E docs \in seqs_upto(FormatHits, MaxHits) :
            ask_last = [op |-> "format_call", docs |-> docs]

FormatContext ==
    /\ ask_last.op = "format_call"
    /\ ask_last' = [op |-> "format", docs |-> ask_last.docs,
                    context |-> format_context(ask_last.docs)]
    /\ UNCHANGED <<index_vars, cache_vars, chunker>>

NextFormat == FormatContext

SpecFormat == InitFormat /\ [][NextFormat]_vars

(***************************************************************************)
(* Threads calling add_documents and similarity_search on one VectorStore  *)
(* without a client.  No lock is taken in vectorstore.py, so a step is one *)
(* access to self._memory_docs: an append of _store_in_memory, the         *)
(* emptiness test of similarity_search, or one advance of the iterator of  *)
(* its for loop, which looks at the list as it is at that moment.  Every   *)
(* batch has a file name of its own and is added at most once.             *)
(***************************************************************************)
RaceBatches ==
    { <<mk_chunk("f.txt", 0, <<"a">>), mk_chunk("f.txt", 1, <<"b">>)>>,
      <<mk_chunk("g.txt", 0, <<"A">>), mk_chunk("g.txt", 1, <<" ">>),
        mk_chunk("g.txt", 2, <<"b">>)>> }

RaceQueries == { <<"a">>, <<" ">> }

IdleIndexThread ==
    [pc |-> "idle", chunks |-> <<>>, embeddings |-> <<>>, pos |-> 0,
     query_vector |-> embed_one(<<>>), k |-> 0, scored |-> <<>>]

\* Variant: the append lands in the slot the other batch has just filled.
memory_append_same_slot(memory_docs, chunk, embedding) ==
    LET doc == [filename |-> chunk.filename, content |-> chunk.content,
                embedding |-> embedding]
    IN  IF memory_docs # <<>> /\ memory_docs[Len(memory_docs)].filename # chunk.filename
        THEN [memory_docs EXCEPT ![Len(memory_docs)] = doc]
        ELSE Append(memory_docs, doc)

\* self._memory_docs.append({...}) of one iteration of _store_in_memory.
memory_append(memory_docs, chunk, embedding) ==
    Append(memory_docs, [filename |-> chunk.filename, content |-> chunk.content,
                         embedding |-> embedding])

\* One iteration of the scoring loop of similarity_search.
score_one(scored, query_vector, doc) ==
    Append(scored, [filename |-> doc.filename, content |-> doc.content,
                    score |-> _cosine_similarity(query_vector, doc.embedding)])

\* scored.sort(key=score, reverse=True); return scored[:k]
sort_and_cut(scored, k) ==
    SubSeq(sort_desc(scored), 1, Min(k, Len(scored)))

InitIndexRace ==
    /\ vector_store = [client |-> FALSE, memory_docs |-> <<>>]
    /\ qdrant = [exists |-> FALSE, points |-> <<>>]
    /\ last = NoCall
    /\ accepted = <<>>
    /\ cleared = FALSE
    /\ pure_store = [client |-> FALSE, memory_docs |-> <<>>]
    /\ pure_last = NoCall
    /\ cache_manager = [redis_client |-> FALSE, memory_cache |-> <<>>]
    /\ redis = [configured |-> FALSE, up |-> FALSE, up_at_init |-> FALSE, store |-> <<>>]
    /\ now = 0
    /\ cache_last = NoCacheCall
    /\ set_times = <<>>
    /\ cache_calls = 0
    /\ threads = [t \in Threads |-> IdleIndexThread]
    /\ ChunkerIdle
    /\ AskIdle

\* add_documents up to the call of _store_in_memory: the filter, the early
\* return and the embeddings touch nothing shared.
ThreadAddBegin ==
    \E t \in Threads, chunks \in RaceBatches :
        LET valid_chunks == valid_chunks_of(chunks)
            embeddings == embed([n \in 1..Len(valid_chunks) |-> valid_chunks[n].content])
        IN  /\ threads[t].pc = "idle"
            /\ \A n \in 1..Len(accepted) : accepted[n].filename # chunks[1].filename
            /\ accepted' = accepted \o non_blank(chunks)
            /\ cleared' = FALSE
            /\ IF valid_chunks = <<>>
               THEN /\ last' = [op |-> "thread_add", count |-> 0]
                    /\ UNCHANGED threads
               ELSE /\ threads' = [threads EXCEPT ![t] =
                                     [IdleIndexThread EXCEPT !.pc = "store",
                                                             !.chunks = valid_chunks,
                                                             !.embeddings = embeddings]]
                    /\ UNCHANGED last
            /\ UNCHANGED <<vector_store, qdrant, pure_store, pure_last, cache_manager,
                           redis, now, cache_last, set_times, cache_calls, chunker,
                           ask_last>>

\* One append of _store_in_memory; after the last one add_documents
\* returns len(valid_chunks).
ThreadAddStore ==
    \E t \in Threads :
        LET th == threads[t]
            n == th.pos + 1
        IN  /\ th.pc = "store"
            /\ vector_store' = [vector_store EXCEPT !.memory_docs =
                                    memory_append(@, th.chunks[n], th.embeddings[n])]
            /\ IF n = Len(th.chunks)
               THEN /\ threads' = [threads EXCEPT ![t] = IdleIndexThread]
                    /\ last' = [op |-> "thread_add", count |-> Len(th.chunks)]
               ELSE /\ threads' = [threads EXCEPT ![t].pos = n]
                    /\ UNCHANGED last
            /\ UNCHANGED <<qdrant, accepted, cleared, pure_store, pure_last, cache_manager,
                           redis, now, cache_last, set_times, cache_calls, chunker,
                           ask_last>>

\* similarity_search up to the loop: a blank query and an empty list return
\* no hits at once.
ThreadSearchBegin ==
    \E t \in Threads, query \in RaceQueries, k \in 1..MaxK :
        /\ threads[t].pc = "idle"
        /\ IF strip(query) = <<>> \/ vector_store.memory_docs = <<>>
           THEN /\ last' = [op |-> "thread_search", hits |-> <<>>, ranked |-> <<>>]
                /\ UNCHANGED threads
           ELSE /\ threads' = [threads EXCEPT ![t] =
                                 [IdleIndexThread EXCEPT !.pc = "scan",
                                                         !.query_vector = embed_one(query),
                                                         !.k = k]]
                /\ UNCHANGED last
        /\ UNCHANGED <<vector_store, qdrant, accepted, cleared, pure_store, pure_last,
                       cache_manager, redis, now, cache_last, set_times, cache_calls,
                       chunker, ask_last>>

\* The iterator of the for loop yields the next document of the list, or is
\* exhausted: the scored documents are sorted and the first k returned.
ThreadSearchScan ==
    \E t \in Threads :
        LET th == threads[t]
        IN  /\ th.pc = "scan"
            /\ IF th.pos < Len(vector_store.memory_docs)
               THEN /\ threads' = [threads EXCEPT ![t] =
                                     [th EXCEPT !.pos = @ + 1,
                                                !.scored = score_one(@, th.query_vector,
                                                    vector_store.memory_docs[th.pos + 1])]]
                    /\ UNCHANGED last
               ELSE /\ threads' = [threads EXCEPT ![t] = IdleIndexThread]
                    /\ last' = [op |-> "thread_search",
                                hits |-> sort_and_cut(th.scored, th.k),
                                ranked |-> th.scored]
            /\ UNCHANGED <<vector_store, qdrant, accepted, cleared, pure_store, pure_last,
                           cache_manager, redis, now, cache_last, set_times, cache_calls,
                           chunker, ask_last>>

NextIndexRace ==
    \/ ThreadAddBegin
    \/ ThreadAddStore
    \/ ThreadSearchBegin
    \/ ThreadSearchScan

SpecIndexRace == InitIndexRace /\ [][NextIndexRace]_vars

\* C11: a search that runs after a clear has returned and before the next
\* add is called returns no hit, in either mode and whether or not the
\* remote delete succeeded (cleared is set by clear and reset by every add).
C11_NoHitsAfterClear ==
    (last.op = "search" /\ cleared) => last.hits = <<>>

\* C12: health_check and clear never raise when Qdrant fails: a health check
\* whose collection lookup fails returns false, a clear whose delete or
\* recreate fails returns normally, and no operation of the index lets a
\* failure of the backend out as an exception.
C12_RemoteFailureNeverRaises ==
    /\ ~last.raised
    /\ (last.op = "health" /\ last.remote_down) => ~last.healthy

C12_Witness ==
    last.op = "health" /\ last.contacted /\ last.remote_down /\ ~last.healthy

HasSet(question) == strip(lower(question)) \in DOMAIN set_times

LastSet(question) == set_times[strip(lower(question))]

IsGet == cache_last.op = "get"

\* C13: a get at the time of the latest set of the same question returns the
\* value of that set, and a get at least CacheTTL after the latest set of
\* the question returns no value.
C13_SetThenGetReturnsValue ==
    (IsGet /\ HasSet(cache_last.question)) =>
        LET s == LastSet(cache_last.question)
        IN  /\ s.at = cache_last.at => cache_last.ret = s.value
            /\ cache_last.at >= s.at + CacheTTL => cache_last.ret = "None"

\* C14: questions equal up to case and surrounding blanks have one key: a get
\* under one spelling returns the value of the latest live set under any
\* spelling, so a later set under either spelling overwrites the one slot.
C14_KeysIgnoreCaseAndBlanks ==
    /\ \A q1 \in Questions, q2 \in Questions :
        strip(lower(q1)) = strip(lower(q2)) => _get_cache_key(q1) = _get_cache_key(q2)
    /\ Cardinality(DOMAIN cache_manager.memory_cache) <= Cardinality(DOMAIN set_times)
    /\ Cardinality(DOMAIN redis.store) <= Cardinality(DOMAIN set_times)
    /\ (IsGet /\ HasSet(cache_last.question)) =>
        LET s == LastSet(cache_last.question)
        IN  (~s.failed /\ ~cache_last.failed /\ cache_last.at < s.at + CacheTTL)
                => cache_last.ret = s.value

C14_Witness ==
    /\ IsGet /\ HasSet(cache_last.question)
    /\ LastSet(cache_last.question).question # cache_last.question
    /\ cache_last.ret = LastSet(cache_last.question).value

\* C15: when Redis is configured but unreachable at construction, every
\* later get and set works on the local map and none contacts Redis.
C15_UnreachableAtConstructionGoesLocal ==
    (redis.configured /\ ~redis.up_at_init /\ cache_last.op \in {"get", "set"}) =>
        /\ ~cache_manager.redis_client
        /\ ~cache_last.contacted

\* C16: after a get or set in which Redis raised, the instance is in local
\* fallback.
C16_FailedCallSwitchesToLocal ==
    cache_last.failed => ~cache_manager.redis_client

\* C17: a get or set in which Redis raises returns normally, a failing get
\* returns no value, and the failing call changes neither the local map nor
\* what is cached (a failing set stores nothing).
C17_FailingCallChangesNothing ==
    [][(cache_calls' # cache_calls /\ cache_last'.failed) =>
            /\ ~cache_last'.raised
            /\ cache_manager'.memory_cache = cache_manager.memory_cache
            /\ redis'.store = redis.store
            /\ cache_last'.op = "get" => cache_last'.ret = "None"]_vars

C17_Witness ==
    cache_last.op = "set" /\ cache_last.failed /\ ~cache_last.raised

\* C18: under concurrent get and set on the local map, the lazy eviction of
\* get removes only an entry that has expired: an entry written by a
\* concurrent set and still live is never removed.
C18_EvictionRemovesOnlyExpired ==
    [][\A key \in DOMAIN cache_manager.memory_cache :
            key \notin DOMAIN cache_manager'.memory_cache
                => cache_manager.memory_cache[key].expires_at <= now]_vars

\* The loop state machine returns what _chunk_text computes.
ChunkLoopAgrees ==
    chunker.pc = "done" =>
        chunker.chunks = _chunk_text(chunker.text, chunker.chunk_size, chunker.overlap)

\* C19: _chunk_text terminates for every text, chunk_size and overlap: the
\* window length is at least 1, the overlap lies in 0..size-1, every pass of
\* the loop that does not return moves start strictly forward, and every call
\* reaches its return.
C19_ChunkTerminates ==
    /\ [](chunker.size >= 1 /\ chunker.ov >= 0 /\ chunker.ov <= chunker.size - 1)
    /\ [][chunker'.pc = "loop" => chunker'.start > chunker.start]_vars
    /\ (chunker.pc = "loop") ~> (chunker.pc = "done")

C19_Witness ==
    /\ chunker.pc = "done"
    /\ chunker.chunk_size <= 0
    /\ chunker.overlap >= chunker.size
    /\ Len(chunker.windows) >= 3

drop_first(chunk, n) == SubSeq(chunk, Min(Len(chunk), Max(0, n)) + 1, Len(chunk))

RECURSIVE concat_all(_)
concat_all(parts) ==
    IF parts = <<>> THEN <<>> ELSE Head(parts) \o concat_all(Tail(parts))

\* The first chunk followed by every later chunk without its first n characters.
non_overlapping(chunks, n) ==
    concat_all([i \in 1..Len(chunks) |->
                    IF i = 1 THEN chunks[i] ELSE drop_first(chunks[i], n)])

NoWindowEdgeBlank ==
    \A i \in 1..Len(chunker.windows) :
        /\ Head(chunker.windows[i]) \notin Whitespace
        /\ chunker.windows[i][Len(chunker.windows[i])] \notin Whitespace

\* C20 as stated: for every text and overlap < chunk_size, the first chunk
\* followed by each later chunk minus its first overlap characters is the
\* normalized text.
C20_ChunksReconstructText ==
    (chunker.pc = "done" /\ chunker.overlap < chunker.chunk_size) =>
        non_overlapping(chunker.chunks, chunker.overlap) = chunker.normalized

\* C20 amended: for every text and overlap < chunk_size such that no window
\* of the normalized text begins or ends with a whitespace character, the
\* first chunk followed by each later chunk minus its first overlap
\* characters is the normalized text.
C20_ReconstructsWhenNoWindowIsTrimmed ==
    (chunker.pc = "done" /\ chunker.overlap < chunker.chunk_size /\ NoWindowEdgeBlank) =>
        non_overlapping(chunker.chunks, chunker.overlap) = chunker.normalized

C20_Witness ==
    /\ chunker.pc = "done"
    /\ chunker.overlap < chunker.chunk_size
    /\ chunker.overlap >= 1
    /\ NoWindowEdgeBlank
    /\ Len(chunker.chunks) >= 2
    /\ \E i \in 1..Len(chunker.normalized) : chunker.normalized[i] \in Whitespace
    /\ non_overlapping(chunker.chunks, chunker.overlap) = chunker.normalized

\* The windows of a fixed-step sliding window over text: window i covers
\* the characters [(i-1)*step, min(len, (i-1)*step + size)) and the last
\* window is the first whose end reaches the end of the text.
window_end(text, size, step, i) == Min(Len(text), (i - 1) * step + size)

window_count(text, size, step) ==
    IF text = <<>> THEN 0
    ELSE CHOOSE n \in 1..Len(text) :
            /\ window_end(text, size, step, n) = Len(text)
            /\ \A i \in 1..(n - 1) : window_end(text, size, step, i) < Len(text)

sliding_windows(text, size, step) ==
    [i \in 1..window_count(text, size, step) |->
        SubSeq(text, (i - 1) * step + 1, window_end(text, size, step, i))]

RECURSIVE trimmed_non_empty(_)
trimmed_non_empty(ws) ==
    IF ws = <<>> THEN <<>>
    ELSE (IF strip(Head(ws)) # <<>> THEN <<strip(Head(ws))>> ELSE <<>>)
            \o trimmed_non_empty(Tail(ws))

\* C21: _chunk_text is a fixed-step sliding window: with size = max(1,
\* chunk_size) and step = size - clamped overlap (at least 1, so every window
\* has a character the previous one has not), the windows taken are the
\* slices [i*step, min(len, i*step + size)) up to the first one that reaches
\* the end of the normalized text, and the result is the trimmed windows that
\* are not empty, in order; chunk("abcdefghij", 4, 2) is abcd, cdef, efgh,
\* ghij and a blank text gives no chunk.
C21_FixedStepSlidingWindow ==
    LET size == Max(1, chunker.chunk_size)
        step == size - Max(0, Min(chunker.overlap, size - 1))
        expected == sliding_windows(strip(replace_crlf(chunker.text)), size, step)
    IN  /\ step >= 1
        /\ Len(chunker.windows) <= Len(expected)
        /\ chunker.windows = SubSeq(expected, 1, Len(chunker.windows))
        /\ chunker.pc = "done" =>
            /\ chunker.windows = expected
            /\ chunker.chunks = trimmed_non_empty(expected)
            /\ strip(chunker.text) = <<>> => chunker.chunks = <<>>
            /\ (chunker.text = ScenarioText /\ chunker.chunk_size = 4 /\ chunker.overlap = 2)
                => chunker.chunks = << <<"a", "b", "c", "d">>, <<"c", "d", "e", "f">>,
                                       <<"e", "f", "g", "h">>, <<"g", "h", "i", "j">> >>

C21_Witness ==
    /\ chunker.pc = "done"
    /\ chunker.text = ScenarioText
    /\ Len(chunker.chunks) = 4

IsAsk == ask_last.op = "ask" /\ ask_last.status # 422

IsQueryStep(step) == step \in {"cache_get", "retrieve", "generate", "cache_set"}

QueryOrder == <<"cache_get", "retrieve", "generate", "cache_set">>

\* C22: retrieve on an empty or whitespace-only question returns no hit
\* without calling the index: no embedding is computed, Qdrant is not
\* contacted and the mode and contents of the index are as before.
C22_BlankQuestionSkipsIndex ==
    (ask_last.op = "retrieve" /\ strip(ask_last.question) = <<>>) =>
        /\ ask_last.docs = <<>>
        /\ ~ask_last.searched
        /\ ~ask_last.embedded
        /\ ~ask_last.contacted
        /\ ask_last.index_after = ask_last.index_before

C22_Witness ==
    /\ ask_last.op = "retrieve"
    /\ strip(ask_last.question) = <<>>
    /\ ask_last.index_before.client
    /\ ask_last.index_before.memory_docs # <<>>
    /\ ask_last.docs = <<>>

\* C24: when cache get returns a payload the request does no retrieval, no
\* generation and no cache set, and the response it returns is that payload
\* marked cache_hit = true; on a miss the steps taken are, in this order,
\* cache get, retrieve, generate, cache set (all four when the retrieval has
\* hits), and the response returned is marked cache_hit = false.
C24_CacheHitShortCircuits ==
    IsAsk =>
        LET steps == SelectSeq(ask_last.steps, IsQueryStep)
        IN  /\ ask_last.cached # "None" =>
                /\ steps = <<"cache_get">>
                /\ ask_last.docs = <<>>
                /\ ask_last.status = 200 =>
                    (ask_last.payload = ask_last.cached /\ ask_last.cache_hit)
            /\ ask_last.cached = "None" =>
                /\ steps = SubSeq(QueryOrder, 1, Len(steps))
                /\ ask_last.docs # <<>> => steps = QueryOrder
                /\ ~ask_last.cache_hit

C24_Witness ==
    /\ IsAsk
    /\ ask_last.cached # "None"
    /\ ask_last.status = 200
    /\ ask_last.cache_hit
    /\ vector_store.memory_docs # <<>>

stored_payloads ==
    {cache_manager.memory_cache[key].value : key \in DOMAIN cache_manager.memory_cache}
        \cup {json_loads(redis.store[key].value) : key \in DOMAIN redis.store}

\* C25: a request whose question is not cached and whose retrieval has no
\* hit ends in 404 without generating an answer and without writing the
\* cache, so every payload the query path has cached carries at least one
\* source.
C25_NoHitsIs404AndNotCached ==
    /\ (IsAsk /\ ask_last.cached = "None" /\ ask_last.docs = <<>>) =>
        /\ ask_last.status = 404
        /\ SelectSeq(ask_last.steps, IsQueryStep) = <<"cache_get", "retrieve">>
    /\ \A payload \in stored_payloads : payload[2] # <<>>
    /\ (IsAsk /\ ask_last.status = 404) =>
        /\ ask_last.cached = "None"
        /\ ask_last.docs = <<>>

C25_Witness ==
    /\ IsAsk
    /\ ask_last.status = 404
    /\ ask_last.steps = <<"cache_get", "retrieve">>
    /\ cache_manager.memory_cache = <<>>
    /\ redis.store = <<>>

\* Position in the context of the first character of the block of hit i.
RECURSIVE block_start(_, _)
block_start(docs, i) ==
    IF i = 1 THEN 1
    ELSE block_start(docs, i - 1) + 3 + Len(docs[i - 1].content) + 2

\* C23: the context holds exactly one block per hit, in the order of the
\* hits: the label "Source: ", the file name, a line break and the whole
\* content; consecutive blocks are separated by one blank line, nothing
\* else is in the context, and no hits give the empty context.
C23_OneBlockPerHitInOrder ==
    ask_last.op = "format" =>
        LET docs == ask_last.docs
            context == ask_last.context
            n == Len(docs)
        IN  /\ n = 0 => context = <<>>
            /\ n > 0 => Len(context) = block_start(docs, n) + 2 + Len(docs[n].content)
            /\ \A i \in 1..n :
                LET at == block_start(docs, i)
                IN  /\ context[at] = "Source: "
                    /\ context[at + 1] = docs[i].filename
                    /\ context[at + 2] = "\n"
                    /\ SubSeq(context, at + 3, at + 2 + Len(docs[i].content))
                            = docs[i].content
                    /\ i < n =>
                        /\ context[at + 3 + Len(docs[i].content)] = "\n"
                        /\ context[at + 4 + Len(docs[i].content)] = "\n"

\* Three hits, the same hit twice among them, the best score last.
C23_Witness ==
    /\ ask_last.op = "format"
    /\ Len(ask_last.docs) = 3
    /\ ask_last.docs[1] = ask_last.docs[2]
    /\ ask_last.docs[3].filename # ask_last.docs[1].filename
    /\ ask_last.docs[3].score.num * ask_last.docs[1].score.den2
            > ask_last.docs[1].score.num * ask_last.docs[3].score.den2
    /\ Len(ask_last.context) > 0

IsCacheCall == cache_calls' # cache_calls

\* C26: in the local map an entry goes away only in a get of its own key
\* that finds its expiry time reached (the get answers no value), and it
\* changes only in a set of its own key; a set removes no entry, a get
\* keeps an entry that has not expired and every entry of another key, and
\* no step other than get and set touches the map.
C26_ExpiryIsLazyAndOnlyInGet ==
    [][LET before == cache_manager.memory_cache
           after == cache_manager'.memory_cache
           key == _get_cache_key(cache_last'.question)
           is_get == IsCacheCall /\ cache_last'.op = "get"
           is_set == IsCacheCall /\ cache_last'.op = "set"
       IN  /\ \A k \in DOMAIN before :
                \/ k \in DOMAIN after /\ after[k] = before[k]
                \/ /\ is_get
                   /\ k = key
                   /\ k \notin DOMAIN after
                   /\ before[k].expires_at <= cache_last'.at
                   /\ cache_last'.ret = "None"
                \/ /\ is_set
                   /\ k = key
                   /\ k \in DOMAIN after
           /\ is_set => DOMAIN before \subseteq DOMAIN after
           /\ is_get =>
                /\ DOMAIN after \subseteq DOMAIN before
                /\ (key \in DOMAIN before /\ before[key].expires_at > cache_last'.at)
                        => key \in DOMAIN after
           /\ ~IsCacheCall => after = before]_vars

\* A get has just removed the expired entry of its key while the entry of
\* another key, expired as well, is still in the map.
C26_Witness ==
    /\ cache_last.op = "get"
    /\ cache_last.evicted
    /\ _get_cache_key(cache_last.question) \notin DOMAIN cache_manager.memory_cache
    /\ \E k \in DOMAIN cache_manager.memory_cache :
            cache_manager.memory_cache[k].expires_at <= now

\* C27: every entry of the local map expires CacheTTL after the latest set
\* of its key and holds the value of that set; right after a set, on a new
\* key or on one already present, the entry of the key is the value given
\* with the expiry time set time + CacheTTL.
C27_EveryEntryExpiresAfterTheOneTTL ==
    /\ \A k \in DOMAIN cache_manager.memory_cache :
            \E n \in DOMAIN set_times :
                /\ _get_cache_key(set_times[n].question) = k
                /\ cache_manager.memory_cache[k] =
                        [value |-> set_times[n].value,
                         expires_at |-> set_times[n].at + CacheTTL]
    /\ (cache_last.op = "set" /\ ~cache_manager.redis_client) =>
            LET key == _get_cache_key(cache_last.question)
            IN  /\ key \in DOMAIN cache_manager.memory_cache
                /\ cache_manager.memory_cache[key] =
                        [value |-> cache_last.value,
                         expires_at |-> cache_last.at + CacheTTL]

\* A set at a later time has just overwritten the entry of its key.
C27_Witness ==
    /\ cache_last.op = "set"
    /\ ~cache_manager.redis_client
    /\ cache_last.replaced
    /\ cache_last.at > 0
    /\ cache_manager.memory_cache[_get_cache_key(cache_last.question)].expires_at
            = cache_last.at + CacheTTL

\* C28: every chunk that process_document returns has a content that is
\* not empty, begins and ends with no whitespace and is at most
\* max(1, chunk_size) long; the chunks of one call are numbered 0..n-1 in
\* the order of the list under the file name, so their ids differ pairwise;
\* add_documents keeps every one of them and returns their number.
C28_ProcessedChunksAreAllAccepted ==
    last.op = "upload" =>
        LET chunks == last.chunks
        IN  /\ \A n \in 1..Len(chunks) :
                /\ chunks[n].content # <<>>
                /\ strip(chunks[n].content) = chunks[n].content
                /\ Len(chunks[n].content) <= Max(1, ChunkSize)
                /\ chunks[n].id = <<chunks[n].filename, n - 1>>
                /\ chunks[n].filename = chunks[1].filename
            /\ \A n, m \in 1..Len(chunks) : chunks[n].id = chunks[m].id => n = m
            /\ Len(non_blank(chunks)) = Len(chunks)
            /\ last.count = Len(chunks)

\* An upload of a text with more than one window has been added.
C28_Witness ==
    /\ last.op = "upload"
    /\ Len(last.chunks) = 2
    /\ last.count = 2
    /\ Len(vector_store.memory_docs) = 2

of_file(docs, filename) == SelectSeq(docs, LAMBDA doc : doc.filename = filename)

stored_chunks ==
    [n \in 1..Len(vector_store.memory_docs) |->
        [filename |-> vector_store.memory_docs[n].filename,
         content |-> vector_store.memory_docs[n].content]]

\* C29: once the add calls of the threads have returned, the local store
\* holds the valid chunks of every batch added, each exactly once, and the
\* chunks of one batch stand in the order they had in the batch.
C29_ConcurrentAddsKeepEveryChunk ==
    (\A t \in DOMAIN threads : threads[t].pc # "store") =>
        /\ Len(stored_chunks) = Len(accepted)
        /\ \A batch \in RaceBatches :
                of_file(stored_chunks, batch[1].filename)
                    = of_file(accepted, batch[1].filename)

\* Both batches are in, their appends interleaved.
C29_Witness ==
    /\ \A t \in DOMAIN threads : threads[t].pc = "idle"
    /\ Len(vector_store.memory_docs) = 4
    /\ vector_store.memory_docs[1].filename # vector_store.memory_docs[2].filename
    /\ vector_store.memory_docs[2].filename # vector_store.memory_docs[3].filename
    /\ last.op = "thread_add"

\* C30: a search ranks, of every batch, either no chunk or every valid
\* chunk.
C30_SearchSeesWholeBatches ==
    last.op = "thread_search" =>
        \A batch \in RaceBatches :
            Len(of_file(last.ranked, batch[1].filename))
                \in {0, Len(valid_chunks_of(batch))}

\* C31: a search leaves the stored documents and their order, and the
\* Qdrant collection, as they were; it can change only the mode, from
\* remote to local and only when the remote request of the call failed.
\* When the search ends in local mode, be it the first after a remote
\* failure or a later one, its hits are the answer that repeating it with
\* the same query and k gives.
C31_SearchChangesOnlyTheMode ==
    [][last'.op = "search" =>
        /\ vector_store'.memory_docs = vector_store.memory_docs
        /\ qdrant' = qdrant
        /\ vector_store'.client => vector_store.client
        /\ vector_store'.client # vector_store.client =>
                (last'.contacted /\ last'.remote_down)
        /\ ~vector_store'.client =>
                similarity_search(vector_store', qdrant', last'.query, last'.k, TRUE, <<>>).ret
                    = last'.hits]_vars

\* A search whose remote request failed has answered from two stored
\* documents and left the instance in local mode.
C31_Witness ==
    /\ last.op = "search"
    /\ last.contacted
    /\ last.remote_down
    /\ ~vector_store.client
    /\ Len(vector_store.memory_docs) >= 2
    /\ last.hits # <<>>

====
